---- MODULE Spec2Model ----
(***************************************************************************)
(* A model of the citation formatting engine of kemu-chem.github.io:       *)
(* src/src/bibcite_core.py (RTFBuilder, BibTeXProcessor, AuthorFormatter,  *)
(* CitationFormatter, InTextFormatter) and src/src/riscite_core.py         *)
(* (rtf_to_html).                                                          *)
(*                                                                         *)
(* A Python str is modelled as the sequence of its code points (a Text),   *)
(* so that ord()/chr(), escaping and the regular expressions are computed  *)
(* character by character, as the code computes them.  Str(<<"a", "b">>)   *)
(* writes the literal "ab".                                                *)
(***************************************************************************)
EXTENDS Integers, Sequences, FiniteSets, TLC

(***************************************************************************)
(* Text primitives: Python's str operations.                               *)
(***************************************************************************)

\* The printable ASCII characters in code point order: Ascii[i] has code 31 + i.
\* "GRAVE" stands for the grave accent (code 96), which a TLA+ string cannot hold.
Ascii ==
  <<" ", "!", "\"", "#", "$", "%", "&", "'", "(", ")", "*", "+", ",", "-", ".", "/",
    "0", "1", "2", "3", "4", "5", "6", "7", "8", "9", ":", ";", "<", "=", ">", "?",
    "@", "A", "B", "C", "D", "E", "F", "G", "H", "I", "J", "K", "L", "M", "N", "O",
    "P", "Q", "R", "S", "T", "U", "V", "W", "X", "Y", "Z", "[", "\\", "]", "^", "_",
    "GRAVE", "a", "b", "c", "d", "e", "f", "g", "h", "i", "j", "k", "l", "m", "n", "o",
    "p", "q", "r", "s", "t", "u", "v", "w", "x", "y", "z", "{", "|", "}", "~">>

\* ord(c) of a printable ASCII character, as a table.
Code ==
  [c \in {Ascii[i] : i \in 1..Len(Ascii)} |->
     31 + (CHOOSE i \in 1..Len(Ascii) : Ascii[i] = c)]

\* The Text of a literal, written as the tuple of its characters.
Str(lit) == [i \in 1..Len(lit) |-> Code[lit[i]]]

Min(a, b) == IF a < b THEN a ELSE b
Max(a, b) == IF a > b THEN a ELSE b

\* str(n) for an integer n >= 0.
RECURSIVE Decimal(_)
Decimal(n) ==
  IF n < 10 THEN <<48 + n>> ELSE Decimal(n \div 10) \o <<48 + (n % 10)>>

\* int(digits) for a non-empty Text of ASCII digits.
RECURSIVE ParseInt(_)
ParseInt(d) ==
  IF Len(d) = 1 THEN d[1] - 48
  ELSE 10 * ParseInt(SubSeq(d, 1, Len(d) - 1)) + (d[Len(d)] - 48)

\* str.isspace() of one character; also the regular expressions' \s.
IsSpace(c) ==
  c \in ({9, 10, 11, 12, 13, 28, 29, 30, 31, 32, 133, 160, 5760, 8232, 8233, 8239,
          8287, 12288} \cup (8192..8202))

IsDigit(c) == c \in 48..57
IsLower(c) == c \in 97..122

\* s[i:] (1-based: the suffix that starts at index i).
From(s, i) == SubSeq(s, i, Len(s))

\* Whether the non-empty p occurs in s at index i.
StartsAt(s, i, p) ==
  i + Len(p) - 1 <= Len(s) /\ s[i] = p[1] /\ SubSeq(s, i, i + Len(p) - 1) = p

\* s.startswith(p)
StartsWith(s, p) == StartsAt(s, 1, p)

\* The least element of a non-empty set of integers.
First(S) == CHOOSE i \in S : \A j \in S : i <= j

\* The greatest element of a non-empty set of integers.
Last(S) == CHOOSE i \in S : \A j \in S : i >= j

\* The least element of a set of integers, or none for the empty set.
FirstOr(S, none) == IF S = {} THEN none ELSE First(S)

\* The character classes of the regular expressions: \s, \S, \d, [a-z].
InClass(class, c) ==
  CASE class = "space" -> IsSpace(c)
    [] class = "nonspace" -> ~IsSpace(c)
    [] class = "digit" -> IsDigit(c)
    [] class = "lower" -> IsLower(c)

\* The length of the longest run of characters of the class in s from index i.
Run(s, i, class) ==
  FirstOr({j \in i..Len(s) : ~InClass(class, s[j])}, Max(i, Len(s) + 1)) - i

\* "".join(parts)
RECURSIVE Concat(_)
Concat(parts) ==
  IF parts = <<>> THEN <<>>
  ELSE IF Len(parts) = 1 THEN parts[1]
  ELSE Concat(SubSeq(parts, 1, Len(parts) \div 2))
       \o Concat(SubSeq(parts, Len(parts) \div 2 + 1, Len(parts)))

\* What re.sub and str.replace do with the matches of a pattern: lens[k] > 0 is
\* the length of the pattern's match at index k and reps[k] its replacement.
\* From index i on, the leftmost match (at k, 0 for none) is replaced and the
\* scan goes on behind it.
RECURSIVE Rewrite(_, _, _, _)
RewriteAt(s, lens, reps, i, k) ==
  IF k = 0 THEN From(s, i)
  ELSE SubSeq(s, i, k - 1) \o reps[k] \o Rewrite(s, lens, reps, k + lens[k])

Rewrite(s, lens, reps, i) ==
  RewriteAt(s, lens, reps, i, FirstOr({k \in i..Len(s) : lens[k] > 0}, 0))

\* What re.split does with the matches: the pieces between them.
RECURSIVE Pieces(_, _, _)
PiecesAt(s, lens, i, k) ==
  IF k = 0 THEN <<From(s, i)>>
  ELSE <<SubSeq(s, i, k - 1)>> \o Pieces(s, lens, k + lens[k])

Pieces(s, lens, i) == PiecesAt(s, lens, i, FirstOr({k \in i..Len(s) : lens[k] > 0}, 0))

\* s without what lies outside the indexes kept.
Between(s, keep) == IF keep = {} THEN <<>> ELSE SubSeq(s, First(keep), Last(keep))

\* str.strip()
strip(s) == Between(s, {i \in 1..Len(s) : ~IsSpace(s[i])})

\* str.replace(old, new) for a non-empty old: left to right, non-overlapping.
replace(s, old, new) ==
  Rewrite(s, [k \in 1..Len(s) |-> IF StartsAt(s, k, old) THEN Len(old) ELSE 0],
          [k \in 1..Len(s) |-> new], 1)

\* str.split(): the maximal runs of non-whitespace characters, in order.
RECURSIVE SplitFrom(_, _)
SplitAt(s, k, n) ==
  IF k = 0 THEN <<>> ELSE <<SubSeq(s, k, k + n - 1)>> \o SplitFrom(s, k + n)

SplitWord(s, k) == SplitAt(s, k, IF k = 0 THEN 0 ELSE Run(s, k, "nonspace"))

SplitFrom(s, i) == SplitWord(s, FirstOr({k \in i..Len(s) : ~IsSpace(s[k])}, 0))

split(s) == SplitFrom(s, 1)

\* sep.join(parts)
RECURSIVE join(_, _)
join(sep, parts) ==
  IF parts = <<>> THEN <<>>
  ELSE IF Len(parts) = 1 THEN parts[1]
  ELSE parts[1] \o sep \o join(sep, Tail(parts))

\* The index of the first occurrence of character c in s at or after i, or 0.
Find(s, c, i) == FirstOr({k \in i..Len(s) : s[k] = c}, 0)

\* The index of the first occurrence of sub in s at or after i, or 0.
FindSub(s, sub, i) == FirstOr({k \in i..Len(s) : StartsAt(s, k, sub)}, 0)

\* str.upper() of one character (ASCII and Latin-1): a Text, as the sharp s
\* becomes two characters.
UpperChar(c) ==
  IF c \in 97..122 THEN <<c - 32>>
  ELSE IF c = 223 THEN <<83, 83>>
  ELSE IF c \in 224..254 /\ c # 247 THEN <<c - 32>>
  ELSE IF c = 255 THEN <<376>>
  ELSE <<c>>

upper(s) == Concat([i \in 1..Len(s) |-> UpperChar(s[i])])

\* str.lower() of one character (ASCII and Latin-1).
LowerChar(c) ==
  IF c \in 65..90 THEN c + 32
  ELSE IF c \in 192..222 /\ c # 215 THEN c + 32
  ELSE c

lower(s) == [i \in 1..Len(s) |-> LowerChar(s[i])]

\* The results that stand for a raised exception (no Text holds a negative
\* code point).
IndexError == <<-1>>
ValueError == <<-2>>
TypeError == <<-3>>

(***************************************************************************)
(* Regular expression substitutions, as re.sub applies them: left to       *)
(* right, non-overlapping.                                                 *)
(***************************************************************************)

\* A match, at index i of s, of  prefix \s+ (group) \}  (ws) or of
\* prefix (group) \}  (~ws), where group is [^}]* (~dot) or .*? (dot, which
\* stops at a line break): <<first index of the group, index of the brace>>,
\* or <<0, 0>>.  \s+ is greedy and a whitespace character is never a brace.
GroupTo(s, g, close, dot) ==
  IF close = 0 THEN <<0, 0>>
  ELSE IF dot /\ \E j \in g..(close - 1) : s[j] = 10 THEN <<0, 0>>
  ELSE <<g, close>>

GroupFrom(s, p, k, ws, dot) ==
  IF ws /\ k = 0 THEN <<0, 0>> ELSE GroupTo(s, p + k, Find(s, 125, p + k), dot)

MatchGroup(s, i, prefix, ws, dot) ==
  IF ~StartsAt(s, i, prefix) THEN <<0, 0>>
  ELSE GroupFrom(s, i + Len(prefix),
                 IF ws THEN Run(s, i + Len(prefix), "space") ELSE 0, ws, dot)

\* The length of the match m found at index k, and what replaces it.
GroupLen(k, m) == IF m[2] > 0 THEN m[2] - k + 1 ELSE 0
GroupRep(s, m, open, close) ==
  IF m[2] > 0 THEN open \o SubSeq(s, m[1], m[2] - 1) \o close ELSE <<>>

\* re.sub(prefix [\s+] (group) \}, open \1 close, s)
SubGroup(s, prefix, ws, dot, open, close) ==
  Rewrite(s, [k \in 1..Len(s) |-> GroupLen(k, MatchGroup(s, k, prefix, ws, dot))],
          [k \in 1..Len(s) |-> GroupRep(s, MatchGroup(s, k, prefix, ws, dot), open, close)],
          1)

(***************************************************************************)
(* RTFBuilder                                                              *)
(***************************************************************************)

\* A wrong form: the characters above 127 are kept as they are.
high_kept(text) == text

\* The loop of escape: a character above 127 becomes \u<code point>?
EscapeHigh(text) ==
  Concat([i \in 1..Len(text) |->
            IF text[i] > 127
            THEN Str(<<"\\", "u">>) \o Decimal(text[i]) \o Str(<<"?">>)
            ELSE <<text[i]>>])

escape(text) ==
  IF text = <<>> THEN <<>>
  ELSE EscapeHigh(replace(replace(replace(text, Str(<<"\\">>), Str(<<"\\", "\\">>)),
                                  Str(<<"{">>), Str(<<"\\", "{">>)),
                          Str(<<"}">>), Str(<<"\\", "}">>)))

\* italic with the wrap command left out.
italic_unwrapped(text) == escape(text)

italic(text) == Str(<<"{", "\\", "i", " ">>) \o escape(text) \o Str(<<"}">>)

\* bold with the italic command for the bold one.
bold_as_italic(text) == italic(text)

bold(text) == Str(<<"{", "\\", "b", " ">>) \o escape(text) \o Str(<<"}">>)

superscript(text) ==
  Str(<<"{", "\\", "s", "u", "p", "e", "r", " ">>) \o escape(text) \o Str(<<"}">>)

newline == Str(<<"\\", "p", "a", "r", " ">>)

HEADER ==
  Str(<<"{", "\\", "r", "t", "f", "1", "\\", "a", "n", "s", "i", "\\", "a", "n", "s",
        "i", "c", "p", "g", "1", "2", "5", "2", "\\", "d", "e", "f", "f", "0", "{",
        "\\", "f", "o", "n", "t", "t", "b", "l", "{", "\\", "f", "0", "\\", "f", "n",
        "i", "l", "\\", "f", "c", "h", "a", "r", "s", "e", "t", "0", " ", "T", "i",
        "m", "e", "s", " ", "N", "e", "w", " ", "R", "o", "m", "a", "n", ";", "}",
        "}", "\\", "v", "i", "e", "w", "k", "i", "n", "d", "4", "\\", "u", "c", "1",
        "\\", "p", "a", "r", "d", "\\", "f", "0", "\\", "f", "s", "2", "4", " ">>)

FOOTER == Str(<<"}">>)

build_document(content) == HEADER \o content \o FOOTER

(***************************************************************************)
(* BibTeXProcessor                                                         *)
(***************************************************************************)

\* accent_map, in the order the dictionary is iterated.
accent_map ==
  << <<Str(<<"\\", "'", "e">>), <<233>>>>, <<Str(<<"\\", "'", "a">>), <<225>>>>,
     <<Str(<<"\\", "'", "i">>), <<237>>>>, <<Str(<<"\\", "'", "o">>), <<243>>>>,
     <<Str(<<"\\", "'", "u">>), <<250>>>>, <<Str(<<"\\", "GRAVE", "e">>), <<232>>>>,
     <<Str(<<"\\", "GRAVE", "a">>), <<224>>>>, <<Str(<<"\\", "\"", "o">>), <<246>>>>,
     <<Str(<<"\\", "\"", "u">>), <<252>>>>, <<Str(<<"\\", "\"", "a">>), <<228>>>>,
     <<Str(<<"\\", "~", "n">>), <<241>>>>,
     <<Str(<<"\\", "c", "{", "c", "}">>), <<231>>>>,
     <<Str(<<"\\", "s", "s">>), <<223>>>> >>

\* The loop over accent_map, from its i-th item on (an empty text has nothing
\* left to replace).
RECURSIVE ReplaceAccents(_, _)
ReplaceAccents(text, i) ==
  IF i > Len(accent_map) \/ text = <<>> THEN text
  ELSE ReplaceAccents(replace(text, accent_map[i][1], accent_map[i][2]), i + 1)

\* The two hyphen replacements of clean_latex, in the code's order.
collapse_hyphens(text) ==
  replace(replace(text, Str(<<"-", "-">>), Str(<<"-">>)),
          Str(<<"-", "-", "-">>), Str(<<"-">>))

clean_latex(text) ==
  IF text = <<>> THEN <<>>
  ELSE LET t1 == SubGroup(text, Str(<<"\\", "t", "e", "x", "t", "i", "t", "{">>),
                          FALSE, FALSE, <<>>, <<>>)
           t2 == SubGroup(t1, Str(<<"\\", "t", "e", "x", "t", "b", "f", "{">>),
                          FALSE, FALSE, <<>>, <<>>)
           t3 == SubGroup(t2, Str(<<"\\", "e", "m", "p", "h", "{">>),
                          FALSE, FALSE, <<>>, <<>>)
           t4 == SubGroup(t3, Str(<<"{", "\\", "e", "m">>), TRUE, FALSE, <<>>, <<>>)
           t5 == SubGroup(t4, Str(<<"{">>), FALSE, FALSE, <<>>, <<>>)
           t6 == replace(t5, Str(<<"\\", "&">>), Str(<<"&">>))
           t7 == replace(t6, Str(<<"~">>), Str(<<" ">>))
           t8 == collapse_hyphens(t7)
       IN strip(ReplaceAccents(t8, 1))

\* A match of \s+and\s+ (re.IGNORECASE) at index i of s: its length, or 0.
\* Both \s+ are greedy; k1 and k2 are their lengths.
AndLen(k1, k2) == IF k2 > 0 THEN k1 + 3 + k2 ELSE 0

AndAfter(s, i, k1) ==
  IF k1 > 0 /\ Len(s) >= i + k1 + 2
     /\ lower(SubSeq(s, i + k1, i + k1 + 2)) = Str(<<"a", "n", "d">>)
  THEN AndLen(k1, Run(s, i + k1 + 3, "space")) ELSE 0

AndMatch(s, i) == AndAfter(s, i, Run(s, i, "space"))

\* re.split(r'\s+and\s+', s, flags=re.IGNORECASE)
SplitAnd(s) == Pieces(s, [k \in 1..Len(s) |-> AndMatch(s, k)], 1)

\* last_token_family taking the first token for the family name.
first_token_family(parts) ==
  IF Len(parts) = 1
  THEN [family |-> parts[1], given |-> <<>>]
  ELSE [family |-> parts[1], given |-> join(Str(<<" ">>), Tail(parts))]

\* The body of the loop of parse_authors for one non-empty, stripped segment:
\* comma is the index of its first comma (0 for none), parts its tokens.
last_token_family(parts) ==
  IF Len(parts) = 1
  THEN [family |-> parts[1], given |-> <<>>]
  ELSE [family |-> parts[Len(parts)],
        given |-> join(Str(<<" ">>), SubSeq(parts, 1, Len(parts) - 1))]

comma_family(author, comma) ==
  IF comma > 0
  THEN [family |-> strip(SubSeq(author, 1, comma - 1)),
        given |-> strip(From(author, comma + 1))]
  ELSE last_token_family(split(author))

parse_author(author) == comma_family(author, Find(author, 44, 1))

\* The loop of parse_authors: a segment that is empty once stripped is skipped.
parse_segment(author) == IF author = <<>> THEN <<>> ELSE <<parse_author(author)>>

RECURSIVE ParseParts(_)
ParseParts(author_parts) ==
  IF author_parts = <<>> THEN <<>>
  ELSE parse_segment(strip(author_parts[1])) \o ParseParts(Tail(author_parts))

parse_authors(author_string) ==
  IF author_string = <<>> THEN <<>>
  ELSE ParseParts(SplitAnd(clean_latex(author_string)))

(***************************************************************************)
(* AuthorFormatter.  authors is a sequence of records [family, given];     *)
(* max_n is the integer the caller passes.                                 *)
(***************************************************************************)

\* authors[:max_n], with Python's meaning of a negative bound.
Slice(authors, max_n) ==
  IF max_n >= 0 THEN SubSeq(authors, 1, Min(Len(authors), max_n))
  ELSE SubSeq(authors, 1, Max(0, Len(authors) + max_n))

\* swap_first_last exchanging the first two formatted authors.
swap_first_second(reverse_authors, fmt) ==
  IF reverse_authors /\ Len(fmt) >= 2
  THEN <<fmt[2], fmt[1]>> \o SubSeq(fmt, 3, Len(fmt))
  ELSE fmt

\* fmt[0], fmt[-1] = fmt[-1], fmt[0] when reverse_authors and len(fmt) >= 2.
swap_first_last(reverse_authors, fmt) ==
  IF reverse_authors /\ Len(fmt) >= 2
  THEN <<fmt[Len(fmt)]>> \o SubSeq(fmt, 2, Len(fmt) - 1) \o <<fmt[1]>>
  ELSE fmt

\* The first character of every token, each followed by trailing.
initial_letters(tokens, trailing) ==
  [i \in 1..Len(tokens) |-> <<tokens[i][1]>> \o trailing]

initials(given, separator, trailing) ==
  IF given = <<>> THEN <<>>
  ELSE join(separator, initial_letters(split(given), trailing))

\* fam + sep + init if init else fam
with_initials(fam, sep, init) == IF init # <<>> THEN fam \o sep \o init ELSE fam

\* "Family, G. I.": the formatted author of acs, apa and nature.
family_initials(a) ==
  with_initials(a.family, Str(<<",", " ">>), initials(a.given, Str(<<" ">>), Str(<<".">>)))

\* The loop over authors[:max_n] with the style's formatted author, then the swap.
format_each(cut, one(_)) == [i \in 1..Len(cut) |-> one(cut[i])]

Formatted(authors, max_n, reverse_authors, one(_)) ==
  swap_first_last(reverse_authors, format_each(Slice(authors, max_n), one))

\* acs_join with the truncation marker left out.
acs_join_unmarked(fmt, truncated) == join(Str(<<";", " ">>), fmt)

\* The return statement of acs for the formatted authors fmt.
acs_join(fmt, truncated) ==
  IF truncated
  THEN join(Str(<<";", " ">>), fmt) \o Str(<<";", " ", "e", "t", " ", "a", "l", ".">>)
  ELSE join(Str(<<";", " ">>), fmt)

acs(authors, max_n, reverse_authors) ==
  IF authors = <<>> THEN <<>>
  ELSE acs_join(Formatted(authors, max_n, reverse_authors, family_initials),
                Len(authors) > max_n)

\* The return statements of apa for the formatted authors fmt; fmt[-1] of an
\* empty list raises IndexError.
apa_join(fmt, truncated) ==
  IF truncated
  THEN IF Len(fmt) = 0 THEN IndexError
       ELSE join(Str(<<",", " ">>), SubSeq(fmt, 1, Min(Len(fmt), 6)))
            \o Str(<<",", " ", ".", ".", ".", " ">>) \o fmt[Len(fmt)]
  ELSE IF Len(fmt) = 1 THEN fmt[1]
  ELSE IF Len(fmt) = 2 THEN fmt[1] \o Str(<<" ", "&", " ">>) \o fmt[2]
  ELSE join(Str(<<",", " ">>), SubSeq(fmt, 1, Len(fmt) - 1))
       \o Str(<<",", " ", "&", " ">>) \o fmt[Len(fmt)]

apa(authors, max_n, reverse_authors) ==
  IF authors = <<>> THEN <<>>
  ELSE apa_join(Formatted(authors, max_n, reverse_authors, family_initials),
                Len(authors) > max_n)

vancouver_name(a) == with_initials(a.family, Str(<<" ">>), initials(a.given, <<>>, <<>>))

vancouver_join(fmt, truncated) ==
  IF truncated
  THEN join(Str(<<",", " ">>), fmt) \o Str(<<",", " ", "e", "t", " ", "a", "l", ".">>)
  ELSE join(Str(<<",", " ">>), fmt)

vancouver(authors, max_n, reverse_authors) ==
  IF authors = <<>> THEN <<>>
  ELSE vancouver_join(Formatted(authors, max_n, reverse_authors, vancouver_name),
                      Len(authors) > max_n)

nature_join(fmt, truncated) ==
  IF truncated
  THEN join(Str(<<",", " ">>), fmt) \o Str(<<" ", "e", "t", " ", "a", "l", ".">>)
  ELSE IF Len(fmt) = 1 THEN fmt[1]
  ELSE IF Len(fmt) = 2 THEN fmt[1] \o Str(<<" ", "&", " ">>) \o fmt[2]
  ELSE join(Str(<<",", " ">>), SubSeq(fmt, 1, Len(fmt) - 1))
       \o Str(<<" ", "&", " ">>) \o fmt[Len(fmt)]

nature(authors, max_n, reverse_authors) ==
  IF authors = <<>> THEN <<>>
  ELSE nature_join(Formatted(authors, max_n, reverse_authors, family_initials),
                   Len(authors) > max_n)

\* "G. I. Family": init + " " + fam if init else fam
initials_first(fam, init) == IF init # <<>> THEN init \o Str(<<" ">>) \o fam ELSE fam

ieee_name(a) == initials_first(a.family, initials(a.given, Str(<<" ">>), Str(<<".">>)))

\* ieee_join with "and" before the last author at two authors only.
ieee_join_separator_only(fmt, truncated) ==
  IF truncated
  THEN join(Str(<<",", " ">>), fmt) \o Str(<<",", " ", "e", "t", " ", "a", "l", ".">>)
  ELSE IF Len(fmt) = 2 THEN fmt[1] \o Str(<<" ", "a", "n", "d", " ">>) \o fmt[2]
  ELSE join(Str(<<",", " ">>), fmt)

ieee_join(fmt, truncated) ==
  IF truncated
  THEN join(Str(<<",", " ">>), fmt) \o Str(<<",", " ", "e", "t", " ", "a", "l", ".">>)
  ELSE IF Len(fmt) = 1 THEN fmt[1]
  ELSE IF Len(fmt) = 2 THEN fmt[1] \o Str(<<" ", "a", "n", "d", " ">>) \o fmt[2]
  ELSE join(Str(<<",", " ">>), SubSeq(fmt, 1, Len(fmt) - 1))
       \o Str(<<",", " ", "a", "n", "d", " ">>) \o fmt[Len(fmt)]

ieee(authors, max_n, reverse_authors) ==
  IF authors = <<>> THEN <<>>
  ELSE ieee_join(Formatted(authors, max_n, reverse_authors, ieee_name),
                 Len(authors) > max_n)

\* "FAMILY, Given": the given names are kept in full.
iso690_name(a) == with_initials(upper(a.family), Str(<<",", " ">>), a.given)

iso690_join(fmt, truncated) ==
  IF truncated
  THEN join(Str(<<",", " ">>), fmt) \o Str(<<",", " ", "e", "t", " ", "a", "l", ".">>)
  ELSE join(Str(<<",", " ">>), fmt)

iso690(authors, max_n, reverse_authors) ==
  IF authors = <<>> THEN <<>>
  ELSE iso690_join(Formatted(authors, max_n, reverse_authors, iso690_name),
                   Len(authors) > max_n)

\* "Family, G.I.": the initials are computed only for a non-empty given name.
harvard_name(a) ==
  with_initials(a.family, Str(<<",", " ">>),
                IF a.given # <<>> THEN initials(a.given, <<>>, Str(<<".">>)) ELSE <<>>)

harvard_join(fmt, truncated) ==
  IF truncated
  THEN join(Str(<<",", " ">>), fmt) \o Str(<<" ", "e", "t", " ", "a", "l", ".">>)
  ELSE IF Len(fmt) = 1 THEN fmt[1]
  ELSE IF Len(fmt) = 2 THEN fmt[1] \o Str(<<" ", "a", "n", "d", " ">>) \o fmt[2]
  ELSE join(Str(<<",", " ">>), SubSeq(fmt, 1, Len(fmt) - 1))
       \o Str(<<" ", "a", "n", "d", " ">>) \o fmt[Len(fmt)]

harvard(authors, max_n, reverse_authors) ==
  IF authors = <<>> THEN <<>>
  ELSE harvard_join(Formatted(authors, max_n, reverse_authors, harvard_name),
                    Len(authors) > max_n)

(***************************************************************************)
(* CitationFormatter.  An entry is a function from the keys it holds to    *)
(* Texts; max_n is None or <<n>>.  Each style returns <<plain, rtf>>.      *)
(***************************************************************************)

None == <<>>

\* Get with the text "None" for a missing key.
get_none(entry, key, default) ==
  IF key \in DOMAIN entry THEN entry[key] ELSE Str(<<"N", "o", "n", "e">>)

\* entry.get(key, default)
Get(entry, key, default) == IF key \in DOMAIN entry THEN entry[key] ELSE default

\* get_fields with the entry kind compared as it is written.
get_fields_case_kept(entry) ==
  [authors |-> parse_authors(Get(entry, "author", <<>>)),
   title |-> clean_latex(Get(entry, "title", <<>>)),
   journal |-> clean_latex(Get(entry, "journal", <<>>)),
   year |-> Get(entry, "year", <<>>),
   volume |-> Get(entry, "volume", <<>>),
   issue |-> Get(entry, "number", <<>>),
   pages |-> replace(Get(entry, "pages", <<>>), Str(<<"-", "-">>), <<8211>>),
   doi |-> Get(entry, "doi", <<>>),
   publisher |-> clean_latex(Get(entry, "publisher", <<>>)),
   address |-> clean_latex(Get(entry, "address", <<>>)),
   entry_type |-> Get(entry, "ENTRYTYPE", Str(<<"a", "r", "t", "i", "c", "l", "e">>))]

get_fields(entry) ==
  [authors |-> parse_authors(Get(entry, "author", <<>>)),
   title |-> clean_latex(Get(entry, "title", <<>>)),
   journal |-> clean_latex(Get(entry, "journal", <<>>)),
   year |-> Get(entry, "year", <<>>),
   volume |-> Get(entry, "volume", <<>>),
   issue |-> Get(entry, "number", <<>>),
   pages |-> replace(Get(entry, "pages", <<>>), Str(<<"-", "-">>), <<8211>>),
   doi |-> Get(entry, "doi", <<>>),
   publisher |-> clean_latex(Get(entry, "publisher", <<>>)),
   address |-> clean_latex(Get(entry, "address", <<>>)),
   entry_type |-> lower(Get(entry, "ENTRYTYPE", Str(<<"a", "r", "t", "i", "c", "l", "e">>)))]

format_acs(entry, idx, max_n, omit_title, reverse_authors) ==
  LET citation(f, auth) ==
      IF f.entry_type = Str(<<"a", "r", "t", "i", "c", "l", "e">>)
      THEN IF omit_title
           THEN LET plain == auth \o Str(<<" ">>) \o f.journal \o Str(<<" ">>) \o f.year
                             \o Str(<<",", " ">>) \o f.volume \o Str(<<",", " ">>)
                             \o f.pages \o Str(<<".">>)
                    plain2 == plain
                              \o (IF f.doi # <<>> THEN Str(<<" ", "D", "O", "I", ":", " ">>) \o f.doi ELSE <<>>)
                    rtf == escape(auth \o Str(<<" ">>)) \o italic(f.journal)
                           \o escape(Str(<<" ">>) \o f.year \o Str(<<",", " ">>))
                           \o (IF f.volume # <<>> THEN italic(f.volume) ELSE <<>>)
                           \o escape((IF f.pages # <<>> THEN Str(<<",", " ">>) \o f.pages \o Str(<<".">>) ELSE Str(<<".">>)))
                    rtf2 == rtf
                            \o (IF f.doi # <<>> THEN escape(Str(<<" ", "D", "O", "I", ":", " ">>) \o f.doi) ELSE <<>>)
                IN <<strip(plain2), strip(rtf2)>>
           ELSE LET plain3 == auth \o Str(<<" ">>) \o f.title \o Str(<<".", " ">>)
                              \o f.journal \o Str(<<" ">>) \o f.year \o Str(<<",", " ">>)
                              \o f.volume \o Str(<<",", " ">>) \o f.pages \o Str(<<".">>)
                    plain4 == plain3
                              \o (IF f.doi # <<>> THEN Str(<<" ", "D", "O", "I", ":", " ">>) \o f.doi ELSE <<>>)
                    rtf3 == escape(auth \o Str(<<" ">>) \o f.title \o Str(<<".", " ">>))
                            \o italic(f.journal)
                            \o escape(Str(<<" ">>) \o f.year \o Str(<<",", " ">>))
                            \o (IF f.volume # <<>> THEN italic(f.volume) ELSE <<>>)
                            \o escape((IF f.pages # <<>> THEN Str(<<",", " ">>) \o f.pages \o Str(<<".">>) ELSE Str(<<".">>)))
                    rtf4 == rtf3
                            \o (IF f.doi # <<>> THEN escape(Str(<<" ", "D", "O", "I", ":", " ">>) \o f.doi) ELSE <<>>)
                IN <<strip(plain4), strip(rtf4)>>
      ELSE IF f.entry_type = Str(<<"b", "o", "o", "k">>)
           THEN IF omit_title
                THEN LET plain5 == auth \o Str(<<" ">>) \o f.publisher
                                   \o Str(<<":", " ">>) \o f.address \o Str(<<",", " ">>)
                                   \o f.year \o Str(<<".">>)
                         rtf5 == escape(plain5)
                     IN <<strip(plain5), strip(rtf5)>>
                ELSE LET plain6 == auth \o Str(<<" ">>) \o f.title \o Str(<<";", " ">>)
                                   \o f.publisher \o Str(<<":", " ">>) \o f.address
                                   \o Str(<<",", " ">>) \o f.year \o Str(<<".">>)
                         rtf6 == escape(auth \o Str(<<" ">>)) \o italic(f.title)
                                 \o escape(Str(<<";", " ">>) \o f.publisher
                                           \o Str(<<":", " ">>) \o f.address
                                           \o Str(<<",", " ">>) \o f.year \o Str(<<".">>))
                     IN <<strip(plain6), strip(rtf6)>>
           ELSE IF omit_title
                THEN LET plain7 == auth \o Str(<<" ">>) \o f.year \o Str(<<".">>)
                         rtf7 == escape(plain7)
                     IN <<strip(plain7), strip(rtf7)>>
                ELSE LET plain8 == auth \o Str(<<" ">>) \o f.title \o Str(<<".", " ">>)
                                   \o f.year \o Str(<<".">>)
                         rtf8 == escape(plain8)
                     IN <<strip(plain8), strip(rtf8)>>
      with_authors(f) ==
        citation(f, IF max_n # None
                    THEN acs(f.authors, max_n[1], reverse_authors)
                    ELSE acs(f.authors, 10, reverse_authors))
  IN with_authors(get_fields(entry))

format_apa(entry, idx, max_n, omit_title, reverse_authors) ==
  LET citation(f, auth) ==
      IF auth = IndexError THEN <<IndexError, IndexError>> ELSE
      LET vol_issue == (IF f.issue # <<>> THEN f.volume \o Str(<<"(">>) \o f.issue \o Str(<<")">>) ELSE f.volume)
      IN IF f.entry_type = Str(<<"a", "r", "t", "i", "c", "l", "e">>)
         THEN IF omit_title
              THEN LET plain == auth \o Str(<<" ", "(">>) \o f.year \o Str(<<")", ".", " ">>)
                                \o f.journal \o Str(<<",", " ">>) \o vol_issue
                                \o Str(<<",", " ">>) \o f.pages \o Str(<<".">>)
                       plain2 == plain
                                 \o (IF f.doi # <<>> THEN Str(<<" ", "h", "t", "t", "p", "s", ":", "/", "/", "d", "o", "i", ".", "o", "r", "g", "/">>) \o f.doi ELSE <<>>)
                       rtf == escape(auth \o Str(<<" ", "(">>) \o f.year
                                     \o Str(<<")", ".", " ">>))
                              \o italic(f.journal) \o escape(Str(<<",", " ">>))
                              \o (IF vol_issue # <<>> THEN italic(vol_issue) ELSE <<>>)
                              \o escape((IF f.pages # <<>> THEN Str(<<",", " ">>) \o f.pages \o Str(<<".">>) ELSE Str(<<".">>)))
                       rtf2 == rtf
                               \o (IF f.doi # <<>> THEN escape(Str(<<" ", "h", "t", "t", "p", "s", ":", "/", "/", "d", "o", "i", ".", "o", "r", "g", "/">>) \o f.doi) ELSE <<>>)
                   IN <<strip(plain2), strip(rtf2)>>
              ELSE LET plain3 == auth \o Str(<<" ", "(">>) \o f.year
                                 \o Str(<<")", ".", " ">>) \o f.title \o Str(<<".", " ">>)
                                 \o f.journal \o Str(<<",", " ">>) \o vol_issue
                                 \o Str(<<",", " ">>) \o f.pages \o Str(<<".">>)
                       plain4 == plain3
                                 \o (IF f.doi # <<>> THEN Str(<<" ", "h", "t", "t", "p", "s", ":", "/", "/", "d", "o", "i", ".", "o", "r", "g", "/">>) \o f.doi ELSE <<>>)
                       rtf3 == escape(auth \o Str(<<" ", "(">>) \o f.year
                                      \o Str(<<")", ".", " ">>) \o f.title
                                      \o Str(<<".", " ">>))
                               \o italic(f.journal) \o escape(Str(<<",", " ">>))
                               \o (IF vol_issue # <<>> THEN italic(vol_issue) ELSE <<>>)
                               \o escape((IF f.pages # <<>> THEN Str(<<",", " ">>) \o f.pages \o Str(<<".">>) ELSE Str(<<".">>)))
                       rtf4 == rtf3
                               \o (IF f.doi # <<>> THEN escape(Str(<<" ", "h", "t", "t", "p", "s", ":", "/", "/", "d", "o", "i", ".", "o", "r", "g", "/">>) \o f.doi) ELSE <<>>)
                   IN <<strip(plain4), strip(rtf4)>>
         ELSE IF f.entry_type = Str(<<"b", "o", "o", "k">>)
              THEN IF omit_title
                   THEN LET plain5 == auth \o Str(<<" ", "(">>) \o f.year
                                      \o Str(<<")", ".", " ">>) \o f.publisher
                                      \o Str(<<".">>)
                            rtf5 == escape(plain5)
                        IN <<strip(plain5), strip(rtf5)>>
                   ELSE LET plain6 == auth \o Str(<<" ", "(">>) \o f.year
                                      \o Str(<<")", ".", " ">>) \o f.title
                                      \o Str(<<".", " ">>) \o f.publisher \o Str(<<".">>)
                            rtf6 == escape(auth \o Str(<<" ", "(">>) \o f.year
                                           \o Str(<<")", ".", " ">>))
                                    \o italic(f.title)
                                    \o escape(Str(<<".", " ">>) \o f.publisher
                                              \o Str(<<".">>))
                        IN <<strip(plain6), strip(rtf6)>>
              ELSE IF omit_title
                   THEN LET plain7 == auth \o Str(<<" ", "(">>) \o f.year
                                      \o Str(<<")", ".">>)
                            rtf7 == escape(plain7)
                        IN <<strip(plain7), strip(rtf7)>>
                   ELSE LET plain8 == auth \o Str(<<" ", "(">>) \o f.year
                                      \o Str(<<")", ".", " ">>) \o f.title \o Str(<<".">>)
                            rtf8 == escape(plain8)
                        IN <<strip(plain8), strip(rtf8)>>
      with_authors(f) ==
        citation(f, IF max_n # None
                    THEN apa(f.authors, max_n[1], reverse_authors)
                    ELSE apa(f.authors, 7, reverse_authors))
  IN with_authors(get_fields(entry))

format_vancouver(entry, idx, max_n, omit_title, reverse_authors) ==
  LET citation(f, auth) ==
      LET pages == replace(f.pages, <<8211>>, Str(<<"-">>))
          vol_issue == (IF f.issue # <<>> THEN f.volume \o Str(<<"(">>) \o f.issue \o Str(<<")">>) ELSE f.volume)
      IN IF f.entry_type = Str(<<"a", "r", "t", "i", "c", "l", "e">>)
         THEN IF omit_title
              THEN LET plain == Decimal(idx) \o Str(<<".", " ">>) \o auth
                                \o Str(<<".", " ">>) \o f.journal \o Str(<<".", " ">>)
                                \o f.year \o Str(<<";">>) \o vol_issue \o Str(<<":">>)
                                \o pages \o Str(<<".">>)
                       rtf == escape(Decimal(idx) \o Str(<<".", " ">>) \o auth
                                     \o Str(<<".", " ">>))
                              \o italic(f.journal)
                              \o escape(Str(<<".", " ">>) \o f.year \o Str(<<";">>)
                                        \o vol_issue \o Str(<<":">>) \o pages
                                        \o Str(<<".">>))
                   IN <<strip(plain), strip(rtf)>>
              ELSE LET plain2 == Decimal(idx) \o Str(<<".", " ">>) \o auth
                                 \o Str(<<".", " ">>) \o f.title \o Str(<<".", " ">>)
                                 \o f.journal \o Str(<<".", " ">>) \o f.year \o Str(<<";">>)
                                 \o vol_issue \o Str(<<":">>) \o pages \o Str(<<".">>)
                       rtf2 == escape(Decimal(idx) \o Str(<<".", " ">>) \o auth
                                      \o Str(<<".", " ">>) \o f.title \o Str(<<".", " ">>))
                               \o italic(f.journal)
                               \o escape(Str(<<".", " ">>) \o f.year \o Str(<<";">>)
                                         \o vol_issue \o Str(<<":">>) \o pages
                                         \o Str(<<".">>))
                   IN <<strip(plain2), strip(rtf2)>>
         ELSE IF omit_title
              THEN LET plain3 == Decimal(idx) \o Str(<<".", " ">>) \o auth
                                 \o Str(<<".", " ">>) \o f.year \o Str(<<".">>)
                       rtf3 == escape(plain3)
                   IN <<strip(plain3), strip(rtf3)>>
              ELSE LET plain4 == Decimal(idx) \o Str(<<".", " ">>) \o auth
                                 \o Str(<<".", " ">>) \o f.title \o Str(<<".", " ">>)
                                 \o f.year \o Str(<<".">>)
                       rtf4 == escape(plain4)
                   IN <<strip(plain4), strip(rtf4)>>
      with_authors(f) ==
        citation(f, IF max_n # None
                    THEN vancouver(f.authors, max_n[1], reverse_authors)
                    ELSE vancouver(f.authors, 6, reverse_authors))
  IN with_authors(get_fields(entry))

format_angewandte(entry, idx, max_n, omit_title, reverse_authors) ==
  LET citation(f, auth) ==
      IF f.entry_type = Str(<<"a", "r", "t", "i", "c", "l", "e">>)
      THEN LET plain == auth \o Str(<<",", " ">>) \o f.journal \o Str(<<" ">>) \o f.year
                        \o Str(<<",", " ">>) \o f.volume \o Str(<<",", " ">>) \o f.pages
                        \o Str(<<".">>)
               plain2 == plain
                         \o (IF f.doi # <<>> THEN Str(<<" ", "D", "O", "I", ":", " ">>) \o f.doi ELSE <<>>)
               rtf == escape(auth \o Str(<<",", " ">>)) \o italic(f.journal)
                      \o escape(Str(<<" ">>) \o f.year \o Str(<<",", " ">>))
                      \o italic(f.volume)
                      \o escape(Str(<<",", " ">>) \o f.pages \o Str(<<".">>))
               rtf2 == rtf
                       \o (IF f.doi # <<>> THEN escape(Str(<<" ", "D", "O", "I", ":", " ">>) \o f.doi) ELSE <<>>)
           IN <<strip(plain2), strip(rtf2)>>
      ELSE IF f.entry_type = Str(<<"b", "o", "o", "k">>)
           THEN IF omit_title
                THEN LET plain3 == auth \o Str(<<",", " ">>) \o f.publisher
                                   \o Str(<<",", " ">>) \o f.address \o Str(<<",", " ">>)
                                   \o f.year \o Str(<<".">>)
                         rtf3 == escape(plain3)
                     IN <<strip(plain3), strip(rtf3)>>
                ELSE LET plain4 == auth \o Str(<<",", " ">>) \o f.title
                                   \o Str(<<",", " ">>) \o f.publisher
                                   \o Str(<<",", " ">>) \o f.address \o Str(<<",", " ">>)
                                   \o f.year \o Str(<<".">>)
                         rtf4 == escape(auth \o Str(<<",", " ">>)) \o italic(f.title)
                                 \o escape(Str(<<",", " ">>) \o f.publisher
                                           \o Str(<<",", " ">>) \o f.address
                                           \o Str(<<",", " ">>) \o f.year \o Str(<<".">>))
                     IN <<strip(plain4), strip(rtf4)>>
           ELSE IF omit_title
                THEN LET plain5 == auth \o Str(<<",", " ">>) \o f.year \o Str(<<".">>)
                         rtf5 == escape(plain5)
                     IN <<strip(plain5), strip(rtf5)>>
                ELSE LET plain6 == auth \o Str(<<",", " ">>) \o f.title
                                   \o Str(<<",", " ">>) \o f.year \o Str(<<".">>)
                         rtf6 == escape(plain6)
                     IN <<strip(plain6), strip(rtf6)>>
      with_authors(f) ==
        citation(f, IF max_n # None
                    THEN nature(f.authors, max_n[1], reverse_authors)
                    ELSE nature(f.authors, 5, reverse_authors))
  IN with_authors(get_fields(entry))

format_rsc(entry, idx, max_n, omit_title, reverse_authors) ==
  LET citation(f, auth) ==
      IF f.entry_type = Str(<<"a", "r", "t", "i", "c", "l", "e">>)
      THEN LET plain == auth \o Str(<<",", " ">>) \o f.journal \o Str(<<",", " ">>)
                        \o f.year \o Str(<<",", " ">>) \o f.volume \o Str(<<",", " ">>)
                        \o f.pages \o Str(<<".">>)
               plain2 == plain
                         \o (IF f.doi # <<>> THEN Str(<<" ", "D", "O", "I", ":", " ">>) \o f.doi ELSE <<>>)
               rtf == escape(auth \o Str(<<",", " ">>)) \o italic(f.journal)
                      \o escape(Str(<<",", " ">>) \o f.year \o Str(<<",", " ">>))
                      \o bold(f.volume)
                      \o escape(Str(<<",", " ">>) \o f.pages \o Str(<<".">>))
               rtf2 == rtf
                       \o (IF f.doi # <<>> THEN escape(Str(<<" ", "D", "O", "I", ":", " ">>) \o f.doi) ELSE <<>>)
           IN <<strip(plain2), strip(rtf2)>>
      ELSE IF f.entry_type = Str(<<"b", "o", "o", "k">>)
           THEN IF omit_title
                THEN LET plain3 == auth \o Str(<<",", " ">>) \o f.publisher
                                   \o Str(<<",", " ">>) \o f.year \o Str(<<".">>)
                         rtf3 == escape(plain3)
                     IN <<strip(plain3), strip(rtf3)>>
                ELSE LET plain4 == auth \o Str(<<",", " ">>) \o f.title
                                   \o Str(<<",", " ">>) \o f.publisher
                                   \o Str(<<",", " ">>) \o f.year \o Str(<<".">>)
                         rtf4 == escape(auth \o Str(<<",", " ">>)) \o italic(f.title)
                                 \o escape(Str(<<",", " ">>) \o f.publisher
                                           \o Str(<<",", " ">>) \o f.year \o Str(<<".">>))
                     IN <<strip(plain4), strip(rtf4)>>
           ELSE IF omit_title
                THEN LET plain5 == auth \o Str(<<",", " ">>) \o f.year \o Str(<<".">>)
                         rtf5 == escape(plain5)
                     IN <<strip(plain5), strip(rtf5)>>
                ELSE LET plain6 == auth \o Str(<<",", " ">>) \o f.title
                                   \o Str(<<",", " ">>) \o f.year \o Str(<<".">>)
                         rtf6 == escape(plain6)
                     IN <<strip(plain6), strip(rtf6)>>
      with_authors(f) ==
        citation(f, IF max_n # None
                    THEN nature(f.authors, max_n[1], reverse_authors)
                    ELSE nature(f.authors, 5, reverse_authors))
  IN with_authors(get_fields(entry))

\* format_aoa with every entry kind rendered as an article by format_acs.
format_as_article(entry, idx, max_n, omit_title, reverse_authors) ==
  format_acs([k \in DOMAIN entry \cup {"ENTRYTYPE"} |->
                IF k = "ENTRYTYPE" THEN Str(<<"a", "r", "t", "i", "c", "l", "e">>)
                ELSE entry[k]],
             idx, max_n, omit_title, reverse_authors)

format_aoa(entry, idx, max_n, omit_title, reverse_authors) ==
  LET citation(f, auth) ==
      IF f.entry_type = Str(<<"a", "r", "t", "i", "c", "l", "e">>)
      THEN IF omit_title
           THEN LET plain == auth \o Str(<<" ">>) \o f.journal \o Str(<<" ">>) \o f.year
                             \o Str(<<",", " ">>) \o f.volume \o Str(<<",", " ">>)
                             \o f.pages \o Str(<<".">>)
                    plain2 == plain
                              \o (IF f.doi # <<>> THEN Str(<<" ", "h", "t", "t", "p", "s", ":", "/", "/", "d", "o", "i", ".", "o", "r", "g", "/">>) \o f.doi ELSE <<>>)
                    rtf == escape(auth \o Str(<<" ">>)) \o italic(f.journal)
                           \o escape(Str(<<" ">>)) \o bold(f.year)
                           \o escape(Str(<<",", " ">>)) \o italic(f.volume)
                           \o escape(Str(<<",", " ">>) \o f.pages \o Str(<<".">>))
                    rtf2 == rtf
                            \o (IF f.doi # <<>> THEN escape(Str(<<" ", "h", "t", "t", "p", "s", ":", "/", "/", "d", "o", "i", ".", "o", "r", "g", "/">>) \o f.doi) ELSE <<>>)
                IN <<strip(plain2), strip(rtf2)>>
           ELSE LET plain3 == auth \o Str(<<" ">>) \o f.title \o Str(<<".", " ">>)
                              \o f.journal \o Str(<<" ">>) \o f.year \o Str(<<",", " ">>)
                              \o f.volume \o Str(<<",", " ">>) \o f.pages \o Str(<<".">>)
                    plain4 == plain3
                              \o (IF f.doi # <<>> THEN Str(<<" ", "h", "t", "t", "p", "s", ":", "/", "/", "d", "o", "i", ".", "o", "r", "g", "/">>) \o f.doi ELSE <<>>)
                    rtf3 == escape(auth \o Str(<<" ">>) \o f.title \o Str(<<".", " ">>))
                            \o italic(f.journal) \o escape(Str(<<" ">>)) \o bold(f.year)
                            \o escape(Str(<<",", " ">>)) \o italic(f.volume)
                            \o escape(Str(<<",", " ">>) \o f.pages \o Str(<<".">>))
                    rtf4 == rtf3
                            \o (IF f.doi # <<>> THEN escape(Str(<<" ", "h", "t", "t", "p", "s", ":", "/", "/", "d", "o", "i", ".", "o", "r", "g", "/">>) \o f.doi) ELSE <<>>)
                IN <<strip(plain4), strip(rtf4)>>
      ELSE IF omit_title
           THEN LET plain5 == auth \o Str(<<" ">>) \o f.year \o Str(<<".">>)
                    rtf5 == escape(plain5)
                IN <<strip(plain5), strip(rtf5)>>
           ELSE LET plain6 == auth \o Str(<<" ">>) \o f.title \o Str(<<".", " ">>)
                              \o f.year \o Str(<<".">>)
                    rtf6 == escape(plain6)
                IN <<strip(plain6), strip(rtf6)>>
      with_authors(f) ==
        citation(f, IF max_n # None
                    THEN acs(f.authors, max_n[1], reverse_authors)
                    ELSE acs(f.authors, 10, reverse_authors))
  IN with_authors(get_fields(entry))

format_nature(entry, idx, max_n, omit_title, reverse_authors) ==
  LET citation(f, auth) ==
      IF f.entry_type = Str(<<"a", "r", "t", "i", "c", "l", "e">>)
      THEN IF omit_title
           THEN LET plain == Decimal(idx) \o Str(<<".", " ">>) \o auth \o Str(<<" ">>)
                             \o f.journal \o Str(<<" ">>) \o f.volume \o Str(<<",", " ">>)
                             \o f.pages \o Str(<<" ", "(">>) \o f.year
                             \o Str(<<")", ".">>)
                    plain2 == plain
                              \o (IF f.doi # <<>> THEN Str(<<" ", "h", "t", "t", "p", "s", ":", "/", "/", "d", "o", "i", ".", "o", "r", "g", "/">>) \o f.doi ELSE <<>>)
                    rtf == escape(Decimal(idx) \o Str(<<".", " ">>) \o auth
                                  \o Str(<<" ">>))
                           \o italic(f.journal) \o escape(Str(<<" ">>)) \o bold(f.volume)
                           \o escape(Str(<<",", " ">>) \o f.pages \o Str(<<" ", "(">>)
                                     \o f.year \o Str(<<")", ".">>))
                    rtf2 == rtf
                            \o (IF f.doi # <<>> THEN escape(Str(<<" ", "h", "t", "t", "p", "s", ":", "/", "/", "d", "o", "i", ".", "o", "r", "g", "/">>) \o f.doi) ELSE <<>>)
                IN <<strip(plain2), strip(rtf2)>>
           ELSE LET plain3 == Decimal(idx) \o Str(<<".", " ">>) \o auth \o Str(<<" ">>)
                              \o f.title \o Str(<<".", " ">>) \o f.journal \o Str(<<" ">>)
                              \o f.volume \o Str(<<",", " ">>) \o f.pages
                              \o Str(<<" ", "(">>) \o f.year \o Str(<<")", ".">>)
                    plain4 == plain3
                              \o (IF f.doi # <<>> THEN Str(<<" ", "h", "t", "t", "p", "s", ":", "/", "/", "d", "o", "i", ".", "o", "r", "g", "/">>) \o f.doi ELSE <<>>)
                    rtf3 == escape(Decimal(idx) \o Str(<<".", " ">>) \o auth
                                   \o Str(<<" ">>) \o f.title \o Str(<<".", " ">>))
                            \o italic(f.journal) \o escape(Str(<<" ">>)) \o bold(f.volume)
                            \o escape(Str(<<",", " ">>) \o f.pages \o Str(<<" ", "(">>)
                                      \o f.year \o Str(<<")", ".">>))
                    rtf4 == rtf3
                            \o (IF f.doi # <<>> THEN escape(Str(<<" ", "h", "t", "t", "p", "s", ":", "/", "/", "d", "o", "i", ".", "o", "r", "g", "/">>) \o f.doi) ELSE <<>>)
                IN <<strip(plain4), strip(rtf4)>>
      ELSE IF f.entry_type = Str(<<"b", "o", "o", "k">>)
           THEN IF omit_title
                THEN LET plain5 == Decimal(idx) \o Str(<<".", " ">>) \o auth
                                   \o Str(<<" ", "(">>) \o f.publisher
                                   \o Str(<<",", " ">>) \o f.year \o Str(<<")", ".">>)
                         rtf5 == escape(plain5)
                     IN <<strip(plain5), strip(rtf5)>>
                ELSE LET plain6 == Decimal(idx) \o Str(<<".", " ">>) \o auth
                                   \o Str(<<" ">>) \o f.title \o Str(<<" ", "(">>)
                                   \o f.publisher \o Str(<<",", " ">>) \o f.year
                                   \o Str(<<")", ".">>)
                         rtf6 == escape(Decimal(idx) \o Str(<<".", " ">>) \o auth
                                        \o Str(<<" ">>))
                                 \o italic(f.title)
                                 \o escape(Str(<<" ", "(">>) \o f.publisher
                                           \o Str(<<",", " ">>) \o f.year
                                           \o Str(<<")", ".">>))
                     IN <<strip(plain6), strip(rtf6)>>
           ELSE IF omit_title
                THEN LET plain7 == Decimal(idx) \o Str(<<".", " ">>) \o auth
                                   \o Str(<<" ", "(">>) \o f.year \o Str(<<")", ".">>)
                         rtf7 == escape(plain7)
                     IN <<strip(plain7), strip(rtf7)>>
                ELSE LET plain8 == Decimal(idx) \o Str(<<".", " ">>) \o auth
                                   \o Str(<<" ">>) \o f.title \o Str(<<" ", "(">>)
                                   \o f.year \o Str(<<")", ".">>)
                         rtf8 == escape(plain8)
                     IN <<strip(plain8), strip(rtf8)>>
      with_authors(f) ==
        citation(f, IF max_n # None
                    THEN nature(f.authors, max_n[1], reverse_authors)
                    ELSE nature(f.authors, 5, reverse_authors))
  IN with_authors(get_fields(entry))

format_ieee(entry, idx, max_n, omit_title, reverse_authors) ==
  LET citation(f, auth) ==
      IF f.entry_type = Str(<<"a", "r", "t", "i", "c", "l", "e">>)
      THEN LET parts == <<>>
               parts2 == parts
                         \o (IF f.volume # <<>> THEN <<Str(<<"v", "o", "l", ".", " ">>) \o f.volume>> ELSE <<>>)
               parts3 == parts2
                         \o (IF f.issue # <<>> THEN <<Str(<<"n", "o", ".", " ">>) \o f.issue>> ELSE <<>>)
               parts4 == parts3
                         \o (IF f.pages # <<>> THEN <<Str(<<"p", "p", ".", " ">>) \o f.pages>> ELSE <<>>)
               detail == join(Str(<<",", " ">>), parts4)
           IN IF omit_title
              THEN LET plain == Str(<<"[">>) \o Decimal(idx) \o Str(<<"]", " ">>) \o auth
                                \o Str(<<",", " ">>) \o f.journal \o Str(<<",", " ">>)
                                \o detail \o Str(<<",", " ">>) \o f.year \o Str(<<".">>)
                       rtf == escape(Str(<<"[">>) \o Decimal(idx) \o Str(<<"]", " ">>)
                                     \o auth \o Str(<<",", " ">>))
                              \o italic(f.journal)
                              \o escape(Str(<<",", " ">>) \o detail \o Str(<<",", " ">>)
                                        \o f.year \o Str(<<".">>))
                   IN <<strip(plain), strip(rtf)>>
              ELSE LET plain2 == Str(<<"[">>) \o Decimal(idx) \o Str(<<"]", " ">>) \o auth
                                 \o Str(<<",", " ", "\"">>) \o f.title
                                 \o Str(<<",", "\"", " ">>) \o f.journal \o Str(<<",", " ">>)
                                 \o detail \o Str(<<",", " ">>) \o f.year \o Str(<<".">>)
                       rtf2 == escape(Str(<<"[">>) \o Decimal(idx) \o Str(<<"]", " ">>)
                                      \o auth \o Str(<<",", " ", "\"">>) \o f.title
                                      \o Str(<<",", "\"", " ">>))
                               \o italic(f.journal)
                               \o escape(Str(<<",", " ">>) \o detail \o Str(<<",", " ">>)
                                         \o f.year \o Str(<<".">>))
                   IN <<strip(plain2), strip(rtf2)>>
      ELSE IF f.entry_type = Str(<<"b", "o", "o", "k">>)
           THEN IF omit_title
                THEN LET plain3 == Str(<<"[">>) \o Decimal(idx) \o Str(<<"]", " ">>)
                                   \o auth \o Str(<<",", " ">>) \o f.address
                                   \o Str(<<":", " ">>) \o f.publisher
                                   \o Str(<<",", " ">>) \o f.year \o Str(<<".">>)
                         rtf3 == escape(plain3)
                     IN <<strip(plain3), strip(rtf3)>>
                ELSE LET plain4 == Str(<<"[">>) \o Decimal(idx) \o Str(<<"]", " ">>)
                                   \o auth \o Str(<<",", " ">>) \o f.title
                                   \o Str(<<".", " ">>) \o f.address \o Str(<<":", " ">>)
                                   \o f.publisher \o Str(<<",", " ">>) \o f.year
                                   \o Str(<<".">>)
                         rtf4 == escape(Str(<<"[">>) \o Decimal(idx) \o Str(<<"]", " ">>)
                                        \o auth \o Str(<<",", " ">>))
                                 \o italic(f.title)
                                 \o escape(Str(<<".", " ">>) \o f.address
                                           \o Str(<<":", " ">>) \o f.publisher
                                           \o Str(<<",", " ">>) \o f.year \o Str(<<".">>))
                     IN <<strip(plain4), strip(rtf4)>>
           ELSE IF omit_title
                THEN LET plain5 == Str(<<"[">>) \o Decimal(idx) \o Str(<<"]", " ">>)
                                   \o auth \o Str(<<",", " ">>) \o f.year \o Str(<<".">>)
                         rtf5 == escape(plain5)
                     IN <<strip(plain5), strip(rtf5)>>
                ELSE LET plain6 == Str(<<"[">>) \o Decimal(idx) \o Str(<<"]", " ">>)
                                   \o auth \o Str(<<",", " ", "\"">>) \o f.title
                                   \o Str(<<",", "\"", " ">>) \o f.year \o Str(<<".">>)
                         rtf6 == escape(plain6)
                     IN <<strip(plain6), strip(rtf6)>>
      with_authors(f) ==
        citation(f, IF max_n # None
                    THEN ieee(f.authors, max_n[1], reverse_authors)
                    ELSE ieee(f.authors, 6, reverse_authors))
  IN with_authors(get_fields(entry))

format_iso690(entry, idx, max_n, omit_title, reverse_authors) ==
  LET citation(f, auth) ==
      LET vol_issue == (IF f.issue # <<>> THEN f.volume \o Str(<<"(">>) \o f.issue \o Str(<<")">>) ELSE f.volume)
      IN IF f.entry_type = Str(<<"a", "r", "t", "i", "c", "l", "e">>)
         THEN IF omit_title
              THEN LET plain == Str(<<"[">>) \o Decimal(idx) \o Str(<<"]", " ">>) \o auth
                                \o Str(<<".", " ">>) \o f.journal \o Str(<<".", " ">>)
                                \o f.year \o Str(<<",", " ">>) \o vol_issue
                                \o Str(<<",", " ">>) \o f.pages \o Str(<<".">>)
                       plain2 == plain
                                 \o (IF f.doi # <<>> THEN Str(<<" ", "D", "O", "I", ":", " ">>) \o f.doi ELSE <<>>)
                       rtf == escape(Str(<<"[">>) \o Decimal(idx) \o Str(<<"]", " ">>)
                                     \o auth \o Str(<<".", " ">>))
                              \o italic(f.journal)
                              \o escape(Str(<<".", " ">>) \o f.year \o Str(<<",", " ">>)
                                        \o vol_issue \o Str(<<",", " ">>) \o f.pages
                                        \o Str(<<".">>))
                       rtf2 == rtf
                               \o (IF f.doi # <<>> THEN escape(Str(<<" ", "D", "O", "I", ":", " ">>) \o f.doi) ELSE <<>>)
                   IN <<strip(plain2), strip(rtf2)>>
              ELSE LET plain3 == Str(<<"[">>) \o Decimal(idx) \o Str(<<"]", " ">>) \o auth
                                 \o Str(<<".", " ">>) \o f.title \o Str(<<".", " ">>)
                                 \o f.journal \o Str(<<".", " ">>) \o f.year
                                 \o Str(<<",", " ">>) \o vol_issue \o Str(<<",", " ">>)
                                 \o f.pages \o Str(<<".">>)
                       plain4 == plain3
                                 \o (IF f.doi # <<>> THEN Str(<<" ", "D", "O", "I", ":", " ">>) \o f.doi ELSE <<>>)
                       rtf3 == escape(Str(<<"[">>) \o Decimal(idx) \o Str(<<"]", " ">>)
                                      \o auth \o Str(<<".", " ">>) \o f.title
                                      \o Str(<<".", " ">>))
                               \o italic(f.journal)
                               \o escape(Str(<<".", " ">>) \o f.year \o Str(<<",", " ">>)
                                         \o vol_issue \o Str(<<",", " ">>) \o f.pages
                                         \o Str(<<".">>))
                       rtf4 == rtf3
                               \o (IF f.doi # <<>> THEN escape(Str(<<" ", "D", "O", "I", ":", " ">>) \o f.doi) ELSE <<>>)
                   IN <<strip(plain4), strip(rtf4)>>
         ELSE IF f.entry_type = Str(<<"b", "o", "o", "k">>)
              THEN LET isbn == Get(entry, "isbn", <<>>)
                   IN IF omit_title
                      THEN LET plain5 == Str(<<"[">>) \o Decimal(idx) \o Str(<<"]", " ">>)
                                         \o auth \o Str(<<".", " ">>) \o f.address
                                         \o Str(<<":", " ">>) \o f.publisher
                                         \o Str(<<",", " ">>) \o f.year \o Str(<<".">>)
                               plain6 == plain5
                                         \o (IF isbn # <<>> THEN Str(<<" ", "I", "S", "B", "N", " ">>) \o isbn \o Str(<<".">>) ELSE <<>>)
                               rtf5 == escape(plain6)
                           IN <<strip(plain6), strip(rtf5)>>
                      ELSE LET plain7 == Str(<<"[">>) \o Decimal(idx) \o Str(<<"]", " ">>)
                                         \o auth \o Str(<<".", " ">>) \o f.title
                                         \o Str(<<".", " ">>) \o f.address \o Str(<<":", " ">>)
                                         \o f.publisher \o Str(<<",", " ">>) \o f.year
                                         \o Str(<<".">>)
                               plain8 == plain7
                                         \o (IF isbn # <<>> THEN Str(<<" ", "I", "S", "B", "N", " ">>) \o isbn \o Str(<<".">>) ELSE <<>>)
                               rtf6 == escape(Str(<<"[">>) \o Decimal(idx) \o Str(<<"]", " ">>)
                                              \o auth \o Str(<<".", " ">>))
                                       \o italic(f.title)
                                       \o escape(Str(<<".", " ">>) \o f.address
                                                 \o Str(<<":", " ">>) \o f.publisher
                                                 \o Str(<<",", " ">>) \o f.year \o Str(<<".">>))
                               rtf7 == rtf6
                                       \o (IF isbn # <<>> THEN escape(Str(<<" ", "I", "S", "B", "N", " ">>) \o isbn \o Str(<<".">>)) ELSE <<>>)
                           IN <<strip(plain8), strip(rtf7)>>
              ELSE IF omit_title
                   THEN LET plain9 == Str(<<"[">>) \o Decimal(idx) \o Str(<<"]", " ">>)
                                      \o auth \o Str(<<".", " ">>) \o f.year \o Str(<<".">>)
                            rtf8 == escape(plain9)
                        IN <<strip(plain9), strip(rtf8)>>
                   ELSE LET plain10 == Str(<<"[">>) \o Decimal(idx) \o Str(<<"]", " ">>)
                                       \o auth \o Str(<<".", " ">>) \o f.title
                                       \o Str(<<".", " ">>) \o f.year \o Str(<<".">>)
                            rtf9 == escape(plain10)
                        IN <<strip(plain10), strip(rtf9)>>
      with_authors(f) ==
        citation(f, IF max_n # None
                    THEN iso690(f.authors, max_n[1], reverse_authors)
                    ELSE iso690(f.authors, 3, reverse_authors))
  IN with_authors(get_fields(entry))

\* format_harvard with the title always kept, as format_apa prints it.
format_title_kept(entry, idx, max_n, omit_title, reverse_authors) ==
  format_apa(entry, idx, max_n, FALSE, reverse_authors)

format_harvard(entry, idx, max_n, omit_title, reverse_authors) ==
  LET citation(f, auth) ==
      IF f.entry_type = Str(<<"a", "r", "t", "i", "c", "l", "e">>)
      THEN LET vol_issue == (IF f.issue # <<>> THEN f.volume \o Str(<<"(">>) \o f.issue \o Str(<<")">>) ELSE f.volume)
           IN IF omit_title
              THEN LET plain == auth \o Str(<<" ", "(">>) \o f.year \o Str(<<")", " ">>)
                                \o f.journal \o Str(<<",", " ">>) \o vol_issue
                                \o Str(<<",", " ", "p", "p", ".", " ">>) \o f.pages
                                \o Str(<<".">>)
                       plain2 == plain
                                 \o (IF f.doi # <<>> THEN Str(<<" ", "d", "o", "i", ":", " ">>) \o f.doi ELSE <<>>)
                       rtf == escape(auth \o Str(<<" ", "(">>) \o f.year
                                     \o Str(<<")", " ">>))
                              \o italic(f.journal)
                              \o escape(Str(<<",", " ">>) \o vol_issue
                                        \o Str(<<",", " ", "p", "p", ".", " ">>) \o f.pages
                                        \o Str(<<".">>))
                       rtf2 == rtf
                               \o (IF f.doi # <<>> THEN escape(Str(<<" ", "d", "o", "i", ":", " ">>) \o f.doi) ELSE <<>>)
                   IN <<strip(plain2), strip(rtf2)>>
              ELSE LET plain3 == auth \o Str(<<" ", "(">>) \o f.year
                                 \o Str(<<")", " ", "'">>) \o f.title
                                 \o Str(<<"'", ",", " ">>) \o f.journal \o Str(<<",", " ">>)
                                 \o vol_issue \o Str(<<",", " ", "p", "p", ".", " ">>)
                                 \o f.pages \o Str(<<".">>)
                       plain4 == plain3
                                 \o (IF f.doi # <<>> THEN Str(<<" ", "d", "o", "i", ":", " ">>) \o f.doi ELSE <<>>)
                       rtf3 == escape(auth \o Str(<<" ", "(">>) \o f.year
                                      \o Str(<<")", " ", "'">>) \o f.title
                                      \o Str(<<"'", ",", " ">>))
                               \o italic(f.journal)
                               \o escape(Str(<<",", " ">>) \o vol_issue
                                         \o Str(<<",", " ", "p", "p", ".", " ">>) \o f.pages
                                         \o Str(<<".">>))
                       rtf4 == rtf3
                               \o (IF f.doi # <<>> THEN escape(Str(<<" ", "d", "o", "i", ":", " ">>) \o f.doi) ELSE <<>>)
                   IN <<strip(plain4), strip(rtf4)>>
      ELSE IF f.entry_type = Str(<<"b", "o", "o", "k">>)
           THEN LET edition == Get(entry, "edition", <<>>)
                    edition_str == (IF edition # <<>> THEN Str(<<" ">>) \o edition \o Str(<<" ", "e", "d", "n", ".">>) ELSE <<>>)
                IN IF omit_title
                   THEN LET plain5 == auth \o Str(<<" ", "(">>) \o f.year
                                      \o Str(<<")", ".">>) \o edition_str \o Str(<<" ">>)
                                      \o f.address \o Str(<<":", " ">>) \o f.publisher
                                      \o Str(<<".">>)
                            rtf5 == escape(plain5)
                        IN <<strip(plain5), strip(rtf5)>>
                   ELSE LET plain6 == auth \o Str(<<" ", "(">>) \o f.year
                                      \o Str(<<")", " ">>) \o f.title \o Str(<<".">>)
                                      \o edition_str \o Str(<<" ">>) \o f.address
                                      \o Str(<<":", " ">>) \o f.publisher \o Str(<<".">>)
                            rtf6 == escape(auth \o Str(<<" ", "(">>) \o f.year
                                           \o Str(<<")", " ">>))
                                    \o italic(f.title)
                                    \o escape(Str(<<".">>) \o edition_str \o Str(<<" ">>)
                                              \o f.address \o Str(<<":", " ">>)
                                              \o f.publisher \o Str(<<".">>))
                        IN <<strip(plain6), strip(rtf6)>>
           ELSE IF omit_title
                THEN LET plain7 == auth \o Str(<<" ", "(">>) \o f.year
                                   \o Str(<<")", ".">>)
                         rtf7 == escape(plain7)
                     IN <<strip(plain7), strip(rtf7)>>
                ELSE LET plain8 == auth \o Str(<<" ", "(">>) \o f.year
                                   \o Str(<<")", " ", "'">>) \o f.title
                                   \o Str(<<"'", ".">>)
                         rtf8 == escape(plain8)
                     IN <<strip(plain8), strip(rtf8)>>
      with_authors(f) ==
        citation(f, IF max_n # None
                    THEN harvard(f.authors, max_n[1], reverse_authors)
                    ELSE harvard(f.authors, 3, reverse_authors))
  IN with_authors(get_fields(entry))

(***************************************************************************)
(* InTextFormatter                                                         *)
(***************************************************************************)

\* A wrong form: the first family name, whatever the number of authors.
intext_first_family(authors) ==
  IF authors = <<>> THEN Str(<<"U", "n", "k", "n", "o", "w", "n">>)
  ELSE authors[1].family

\* The auth of get_author_year for the parsed authors.
intext_authors(authors) ==
  IF authors = <<>> THEN Str(<<"U", "n", "k", "n", "o", "w", "n">>)
  ELSE IF Len(authors) = 1 THEN authors[1].family
  ELSE IF Len(authors) = 2
       THEN authors[1].family \o Str(<<" ", "&", " ">>) \o authors[2].family
       ELSE authors[1].family \o Str(<<" ", "e", "t", " ", "a", "l", ".">>)

\* <<auth, year>>
get_author_year(entry) ==
  <<intext_authors(parse_authors(Get(entry, "author", <<>>))), Get(entry, "year", <<>>)>>

\* return plain, RTFBuilder.escape(plain)
plain_escaped(plain) == <<plain, escape(plain)>>

parenthetical(ay) ==
  plain_escaped(Str(<<"(">>) \o ay[1] \o Str(<<",", " ">>) \o ay[2] \o Str(<<")">>))

author_year(entry, idx) == parenthetical(get_author_year(entry))

narrative(ay) == plain_escaped(ay[1] \o Str(<<" ", "(">>) \o ay[2] \o Str(<<")">>))

author_year_narrative(entry, idx) == narrative(get_author_year(entry))

numbered(entry, idx) == plain_escaped(Str(<<"[">>) \o Decimal(idx) \o Str(<<"]">>))

intext_superscript(entry, idx) == <<Decimal(idx), superscript(Decimal(idx))>>

(***************************************************************************)
(* rtf_to_html (riscite_core.py)                                           *)
(***************************************************************************)

\* re.sub(r'^\{\\rtf.*?\\fs24\s*', '', s): k is the index of the first \fs24
\* behind the opening, or 0.
header_to(s, k) ==
  IF StartsWith(s, Str(<<"{", "\\", "r", "t", "f">>)) /\ k > 0
     /\ \A j \in 6..(k - 1) : s[j] # 10
  THEN From(s, k + 5 + Run(s, k + 5, "space"))
  ELSE s

strip_header(s) == header_to(s, FindSub(s, Str(<<"\\", "f", "s", "2", "4">>), 6))

\* re.sub(r'\}$', '', s): $ is the end, or the place before a final line break.
strip_footer(s) ==
  IF Len(s) >= 1 /\ s[Len(s)] = 125 THEN SubSeq(s, 1, Len(s) - 1)
  ELSE IF Len(s) >= 2 /\ s[Len(s)] = 10 /\ s[Len(s) - 1] = 125
       THEN SubSeq(s, 1, Len(s) - 2) \o <<10>>
  ELSE s

\* re.sub(r'\\par\s*', '<br>', s)
sub_par(s) ==
  Rewrite(s, [k \in 1..Len(s) |->
                IF StartsAt(s, k, Str(<<"\\", "p", "a", "r">>))
                THEN 4 + Run(s, k + 4, "space") ELSE 0],
          [k \in 1..Len(s) |-> Str(<<"<", "b", "r", ">">>)], 1)

\* A match of \\u(\d+)\? at index i of s: the number of digits, or 0.
UnicodeDigits(s, i, d) ==
  IF StartsAt(s, i, Str(<<"\\", "u">>)) /\ d > 0 /\ Len(s) >= i + 2 + d
     /\ s[i + 2 + d] = 63
  THEN d ELSE 0

UnicodeMatch(s, i) == UnicodeDigits(s, i, Run(s, i + 2, "digit"))

\* The length of a match with d digits, and chr(int(group)) for the match at k.
UnicodeLen(d) == IF d > 0 THEN d + 3 ELSE 0
UnicodeChr(s, k, d) == IF d > 0 THEN <<ParseInt(SubSeq(s, k + 2, k + 1 + d))>> ELSE <<>>

\* re.sub(r'\\u(\d+)\?', lambda m: chr(int(m.group(1))), s); the code point
\* is kept as it is, also where chr would refuse it.
sub_unicode(s) ==
  Rewrite(s, [k \in 1..Len(s) |-> UnicodeLen(UnicodeMatch(s, k))],
          [k \in 1..Len(s) |-> UnicodeChr(s, k, UnicodeMatch(s, k))], 1)

\* A match of \\[a-z]+\d*\s* at index i of s: its length, or 0; a and d are
\* the lengths of the runs of letters and digits.
ControlSpaces(s, i, a, d) == 1 + a + d + Run(s, i + 1 + a + d, "space")
ControlDigits(s, i, a) ==
  IF s[i] = 92 /\ a > 0 THEN ControlSpaces(s, i, a, Run(s, i + 1 + a, "digit")) ELSE 0

ControlMatch(s, i) == ControlDigits(s, i, Run(s, i + 1, "lower"))

\* re.sub(r'\\[a-z]+\d*\s*', '', s)
sub_control(s) ==
  Rewrite(s, [k \in 1..Len(s) |-> ControlMatch(s, k)], [k \in 1..Len(s) |-> <<>>], 1)

\* The three replace calls that undo the escapes.
unescape(s) ==
  replace(replace(replace(s, Str(<<"\\", "\\">>), Str(<<"\\">>)),
                  Str(<<"\\", "{">>), Str(<<"{">>)),
          Str(<<"\\", "}">>), Str(<<"}">>))

\* chr raises ValueError for a number above 0x10FFFF.
decoded(t) ==
  IF \E i \in 1..Len(t) : t[i] > 1114111 THEN ValueError
  ELSE strip(unescape(sub_control(t)))

rtf_to_html(rtf_text) ==
  LET t1 == strip_footer(strip_header(rtf_text))
      t2 == SubGroup(t1, Str(<<"{", "\\", "i">>), TRUE, TRUE,
                     Str(<<"<", "i", ">">>), Str(<<"<", "/", "i", ">">>))
      t3 == SubGroup(t2, Str(<<"{", "\\", "b">>), TRUE, TRUE,
                     Str(<<"<", "b", ">">>), Str(<<"<", "/", "b", ">">>))
      t4 == SubGroup(t3, Str(<<"{", "\\", "s", "u", "p", "e", "r">>), TRUE, TRUE,
                     Str(<<"<", "s", "u", "p", ">">>), Str(<<"<", "/", "s", "u", "p", ">">>))
  IN decoded(sub_unicode(sub_par(t4)))

(***************************************************************************)
(* DOIProcessor (doicite_core.py)                                          *)
(***************************************************************************)

\* The n-th of a set of numbers, in ascending order.
Nth(S, n) == CHOOSE j \in S : Cardinality({x \in S : x <= j}) = n

\* The places of the line breaks of a text, with the place before its first
\* and the place behind its last character.
Breaks(s) == {0, Len(s) + 1} \cup {k \in 1..Len(s) : s[k] = 10}

\* doi_input.split('\n')
split_lines(s) ==
  [n \in 1..(Cardinality(Breaks(s)) - 1) |->
     SubSeq(s, Nth(Breaks(s), n) + 1, Nth(Breaks(s), n + 1) - 1)]

\* [line.strip() for line in lines if line.strip()]
stripped_lines(lines) ==
  SelectSeq([j \in 1..Len(lines) |-> strip(lines[j])], LAMBDA line : line # <<>>)

doi_lines(doi_input) == stripped_lines(split_lines(doi_input))

DoiOrg == Str(<<"d", "o", "i", ".", "o", "r", "g", "/">>)

\* clean_doi.split("doi.org/")[-1] for the last occurrence at k, or the
\* identifier as it is for k = 0; then strip().
clean_from(doi, k) == strip(IF k = 0 THEN doi ELSE From(doi, k + Len(DoiOrg)))

clean(doi) == clean_from(doi, Last({0} \cup {k \in 1..Len(doi) : StartsAt(doi, k, DoiOrg)}))

\* f"https://api.crossref.org/works/{clean_doi}"
works_url(clean_doi) == Str(<<"h", "t", "t", "p", "s", ":", "/", "/", "a", "p", "i", ".", "c", "r", "o", "s", "s", "r", "e", "f", ".", "o", "r", "g", "/", "w", "o", "r", "k", "s", "/">>) \o clean_doi

\* A wrong test: every status below 500 counts as a success.
status_below_500(status) == status < 500

\* if response.status == 200
is_ok(status) == status = 200

\* if i > 0: await asyncio.sleep(1)
delay_due(i) == i > 0

\* f"Failed to fetch {clean_doi}: {response.status}"
failed_to_fetch(clean_doi, status) ==
  Str(<<"F", "a", "i", "l", "e", "d", " ", "t", "o", " ", "f", "e", "t", "c", "h", " ">>) \o clean_doi \o Str(<<":", " ">>) \o Decimal(status)

\* f"Error fetching DOI {clean_doi}: {e}"
error_fetching(clean_doi, e) ==
  Str(<<"E", "r", "r", "o", "r", " ", "f", "e", "t", "c", "h", "i", "n", "g", " ", "D", "O", "I", " ">>) \o clean_doi \o Str(<<":", " ">>) \o e

\* The kind of entry for a Crossref type.
crossref_kind(c_type) ==
  IF c_type = Str(<<"j", "o", "u", "r", "n", "a", "l", "-", "a", "r", "t", "i", "c", "l", "e">>) THEN Str(<<"a", "r", "t", "i", "c", "l", "e">>)
  ELSE IF c_type = Str(<<"b", "o", "o", "k", "-", "c", "h", "a", "p", "t", "e", "r">>) THEN Str(<<"i", "n", "b", "o", "o", "k">>)
  ELSE IF c_type = Str(<<"b", "o", "o", "k">>) THEN Str(<<"b", "o", "o", "k">>)
  ELSE IF FindSub(c_type, Str(<<"p", "r", "o", "c", "e", "e", "d", "i", "n", "g", "s">>), 1) > 0 THEN Str(<<"i", "n", "p", "r", "o", "c", "e", "e", "d", "i", "n", "g", "s">>)
  ELSE Str(<<"m", "i", "s", "c">>)

\* _parse_crossref_json(item) for an item that has a DOI and may have a type,
\* and none of the other keys.
parse_crossref_json(item) ==
  [k \in {"ENTRYTYPE"} \cup (IF "DOI" \in DOMAIN item THEN {"doi"} ELSE {}) |->
     IF k = "doi" THEN item["DOI"]
     ELSE crossref_kind(IF "type" \in DOMAIN item THEN item["type"] ELSE Str(<<"j", "o", "u", "r", "n", "a", "l", "-", "a", "r", "t", "i", "c", "l", "e">>))]

(***************************************************************************)
(* parse_bibtex (bibcite_core.py) and RISProcessor (riscite_core.py)       *)
(***************************************************************************)

\* f"BibTeX parsing error: {str(e)}"
bibtex_parsing_error(e) == Str(<<"B", "i", "b", "T", "e", "X", " ", "p", "a", "r", "s", "i", "n", "g", " ", "e", "r", "r", "o", "r", ":", " ">>) \o e

\* f"RIS parsing error: {e}"
ris_parsing_error(e) == Str(<<"R", "I", "S", " ", "p", "a", "r", "s", "i", "n", "g", " ", "e", "r", "r", "o", "r", ":", " ">>) \o e

\* What a parse gives its caller: the list it returns, or the error it
\* raises, and the lines it printed on the way.
Gives(list, lines) == [status |-> "returned", entries |-> list, error |-> <<>>, printed |-> lines]
Raises(e) == [status |-> "raised", entries |-> <<>>, error |-> e, printed |-> <<>>]

\* parse_bibtex for what bibtexparser.loads does with the text: it raises e,
\* or it gives a database with the entries.
parse_bibtex(loads) ==
  IF loads.raises THEN Raises(bibtex_parsing_error(loads.e))
  ELSE Gives(loads.entries, <<>>)

\* RISProcessor.TYPE_MAP.get(ris_type, 'article')
TYPE_MAP(ris_type) ==
  IF ris_type = Str(<<"J", "O", "U", "R">>) THEN Str(<<"a", "r", "t", "i", "c", "l", "e">>)
  ELSE IF ris_type = Str(<<"B", "O", "O", "K">>) THEN Str(<<"b", "o", "o", "k">>)
  ELSE IF ris_type = Str(<<"C", "H", "A", "P">>) THEN Str(<<"i", "n", "b", "o", "o", "k">>)
  ELSE IF ris_type = Str(<<"C", "O", "N", "F">>) THEN Str(<<"i", "n", "p", "r", "o", "c", "e", "e", "d", "i", "n", "g", "s">>)
  ELSE IF ris_type = Str(<<"T", "H", "E", "S">>) THEN Str(<<"p", "h", "d", "t", "h", "e", "s", "i", "s">>)
  ELSE IF ris_type = Str(<<"R", "P", "R", "T">>) THEN Str(<<"t", "e", "c", "h", "r", "e", "p", "o", "r", "t">>)
  ELSE IF ris_type = Str(<<"U", "N", "P", "B">>) THEN Str(<<"u", "n", "p", "u", "b", "l", "i", "s", "h", "e", "d">>)
  ELSE Str(<<"a", "r", "t", "i", "c", "l", "e">>)

\* a or b, for two strings
Or(a, b) == IF a # <<>> THEN a ELSE b

\* ris_entry.get('journal_name') or ris_entry.get('alternate_title1') or
\* ris_entry.get('secondary_title', '')
ris_journal(r) ==
  Or(Get(r, "journal_name", <<>>),
     Or(Get(r, "alternate_title1", <<>>), Get(r, "secondary_title", <<>>)))

\* The keys of the entry made of a record of rispy.
bib_keys(r) ==
  {"ENTRYTYPE"}
    \cup (IF "title" \in DOMAIN r \/ "primary_title" \in DOMAIN r THEN {"title"} ELSE {})
    \cup (IF "authors" \in DOMAIN r /\ r["authors"] # <<>> THEN {"author"} ELSE {})
    \cup (IF ris_journal(r) # <<>> THEN {"journal"} ELSE {})
    \cup (IF "year" \in DOMAIN r \/ "publication_year" \in DOMAIN r THEN {"year"} ELSE {})
    \cup (IF Get(r, "start_page", <<>>) # <<>> THEN {"pages"} ELSE {})
    \cup (IF "place_published" \in DOMAIN r THEN {"address"} ELSE {})
    \cup ({"volume", "number", "doi", "publisher"} \cap DOMAIN r)

\* f"{start_page}--{end_page}", or str(start_page)
ris_pages(start_page, end_page) ==
  IF end_page # <<>> THEN start_page \o Str(<<"-", "-">>) \o end_page ELSE start_page

\* The body of the loop of parse_ris: the entry for one record.
bib_entry(r) ==
  [k \in bib_keys(r) |->
     CASE k = "ENTRYTYPE" -> TYPE_MAP(Get(r, "type_of_reference", Str(<<"J", "O", "U", "R">>)))
       [] k = "title" -> Or(Get(r, "title", <<>>), Get(r, "primary_title", <<>>))
       [] k = "author" -> join(Str(<<" ", "a", "n", "d", " ">>), r["authors"])
       [] k = "journal" -> ris_journal(r)
       [] k = "year" -> IF "year" \in DOMAIN r THEN r["year"] ELSE r["publication_year"]
       [] k = "pages" -> ris_pages(Get(r, "start_page", <<>>), Get(r, "end_page", <<>>))
       [] k = "address" -> r["place_published"]
       [] OTHER -> r[k]]

\* parse_ris for what rispy.load does with the text: it raises e, or it gives
\* the records.
parse_ris(load) ==
  IF load.raises THEN Gives(<<>>, <<ris_parsing_error(load.e)>>)
  ELSE Gives([n \in 1..Len(load.entries) |-> bib_entry(load.entries[n])], <<>>)

----------------------------------------------------------------------------
\* Rendering one entry: the caller holds a parsed entry (a dict of string
\* fields, as parse_bibtex and parse_ris return it), picks a reference style
\* from REFERENCE_STYLES and calls it, then transcodes the marked-up result
\* with rtf_to_html (test_rispy.py, step 3).

\* The keys the style functions read from an entry.
Keys ==
  {"author", "title", "journal", "year", "volume", "number", "pages", "doi",
   "publisher", "address", "isbn", "edition", "ENTRYTYPE"}

\* The journal article of test_rispy.py as a parsed entry, its title shortened
\* to "N-cyanoindoles...".
SampleEntry ==
  [k \in {"author", "title", "journal", "volume", "number", "pages", "year", "doi", "ENTRYTYPE"} |->
     CASE k = "author" -> Str(<<"D", "m", "i", "t", "r", "i", "e", "n", "k", "o", ",", " ", "G", "a", "r", "y", " ", "I", " ", "a", "n", "d", " ", "N", "i", "e", "l", "s", "e", "n", ",", " ", "K", "e", "n", "t", " ", "E">>)
       [] k = "title" -> Str(<<"N", "-", "c", "y", "a", "n", "o", "i", "n", "d", "o", "l", "e", "s", ".", ".", ".">>)
       [] k = "journal" -> Str(<<"T", "e", "t", "r", "a", "h", "e", "d", "r", "o", "n", " ", "L", "e", "t", "t", "e", "r", "s">>)
       [] k = "volume" -> Str(<<"3", "1">>)
       [] k = "number" -> Str(<<"2", "6">>)
       [] k = "pages" -> Str(<<"3", "6", "8", "1", "-", "-", "3", "6", "8", "4">>)
       [] k = "year" -> Str(<<"1", "9", "9", "0">>)
       [] k = "doi" -> Str(<<"1", "0", ".", "1", "0", "1", "6", "/", "s", "0", "0", "4", "0", "-", "4", "0", "3", "9", "(", "0", "0", ")", "9", "7", "4", "4", "3", "-", "4">>)
       [] k = "ENTRYTYPE" -> Str(<<"a", "r", "t", "i", "c", "l", "e">>)]

\* A book entry with publisher, place, edition and ISBN.
BookEntry ==
  [k \in {"author", "title", "year", "publisher", "address", "edition", "isbn", "ENTRYTYPE"} |->
     CASE k = "author" -> Str(<<"S", "m", "i", "t", "h", ",", " ", "J", "a", "n", "e">>)
       [] k = "title" -> Str(<<"O", "r", "g", "a", "n", "i", "c", " ", "S", "y", "n", "t", "h", "e", "s", "i", "s">>)
       [] k = "year" -> Str(<<"2", "0", "0", "4">>)
       [] k = "publisher" -> Str(<<"W", "i", "l", "e", "y">>)
       [] k = "address" -> Str(<<"N", "e", "w", " ", "Y", "o", "r", "k">>)
       [] k = "edition" -> Str(<<"2", "n", "d">>)
       [] k = "isbn" -> Str(<<"9", "7", "8", "-", "0", "-", "4", "7", "1", "-", "0", "0", "0", "0", "0", "-", "0">>)
       [] k = "ENTRYTYPE" -> Str(<<"b", "o", "o", "k">>)]

\* An entry with no field at all.
EmptyEntry == [k \in {} |-> <<>>]

\* The values a field is set to: empty, ordinary, and text that must survive
\* escaping (an unknown LaTeX macro, braces, a literal \u65? sequence).
FieldValues ==
  [k \in Keys |->
     CASE k = "author" -> {<<>>, Str(<<"D", "m", "i", "t", "r", "i", "e", "n", "k", "o", ",", " ", "G", "a", "r", "y", " ", "I", " ", "a", "n", "d", " ", "N", "i", "e", "l", "s", "e", "n", ",", " ", "K", "e", "n", "t", " ", "E">>)}
       [] k = "title" -> {<<>>, Str(<<"N", "-", "c", "y", "a", "n", "o", "i", "n", "d", "o", "l", "e", "s", ".", ".", ".">>), Str(<<"\\", "a", "l", "p", "h", "a", "-", "P", "i", "n", "e", "n", "e">>)}
       [] k = "journal" -> {<<>>, Str(<<"T", "e", "t", "r", "a", "h", "e", "d", "r", "o", "n", " ", "L", "e", "t", "t", "e", "r", "s">>)}
       [] k = "year" -> {<<>>, Str(<<"1", "9", "9", "0">>)}
       [] k = "volume" -> {<<>>, Str(<<"3", "1">>), Str(<<"3", "{", "1", "}">>)}
       [] k = "number" -> {<<>>, Str(<<"2", "6">>)}
       [] k = "pages" -> {<<>>, Str(<<"3", "6", "8", "1", "-", "-", "3", "6", "8", "4">>)}
       [] k = "doi" -> {<<>>, Str(<<"1", "0", ".", "1", "0", "1", "6", "/", "s", "0", "0", "4", "0", "-", "4", "0", "3", "9", "(", "0", "0", ")", "9", "7", "4", "4", "3", "-", "4">>), Str(<<"1", "0", ".", "1", "/", "\\", "u", "6", "5", "?">>)}
       [] k = "publisher" -> {<<>>, Str(<<"W", "i", "l", "e", "y">>)}
       [] k = "address" -> {<<>>, Str(<<"N", "e", "w", " ", "Y", "o", "r", "k">>),
                            Str(<<"Z">>) \o <<252>> \o Str(<<"r", "i", "c", "h">>)}
       [] k = "isbn" -> {<<>>, Str(<<"9", "7", "8", "-", "0", "-", "4", "7", "1", "-", "0", "0", "0", "0", "0", "-", "0">>)}
       [] k = "edition" -> {<<>>, Str(<<"2", "n", "d">>)}
       [] k = "ENTRYTYPE" -> {Str(<<"a", "r", "t", "i", "c", "l", "e">>),
                              Str(<<"A", "R", "T", "I", "C", "L", "E">>),
                              Str(<<"B", "o", "o", "k">>), Str(<<"m", "i", "s", "c">>),
                              Str(<<"i", "n", "b", "o", "o", "k">>)}]

\* How many fields of a starting entry are edited before it is rendered.
MaxEdits == 1

\* The idx, max_n, omit_title and reverse_authors arguments of a call.
Indexes == {1}
MaxNs == {None, <<0>>, <<1>>}

VARIABLES
  entry,    \* the entry a caller holds
  edits,    \* how many of its fields were edited
  call,     \* the style function called on it, with its arguments
  result,   \* the pair (plain, rtf) the call returned
  html,     \* rtf_to_html of the marked-up result
  authors,  \* a list of author records, as parse_authors returns them
  listing,  \* the AuthorFormatter method called on it, with its arguments
  names,    \* the string the method returned
  raw,      \* a field text, as it stands in a BibTeX or RIS file
  typed,    \* how many pieces were appended to it
  op,       \* the BibTeXProcessor method applied to it
  value,    \* what the method returned
  doi_input,  \* the text handed to fetch_doi_entries
  dois,       \* its identifiers
  position,   \* i, the number of identifiers the loop has passed
  at,         \* where the coroutine stands
  clean_doi,  \* the identifier it asks for
  entries,    \* the list it builds and returns
  printed,    \* the lines it printed
  awaited,    \* the calls of asyncio.sleep and pyfetch it made, in order
  in_flight,  \* the requests without a response yet
  outcomes,   \* what became of each identifier the loop has passed
  source,     \* a BibTeX or RIS text, as what its parsing library does with it
  parse_result  \* what parse_bibtex or parse_ris gave the caller

citeVars == <<entry, edits, call, result, html>>
listVars == <<authors, listing, names>>
textVars == <<raw, typed, op, value>>
fetchVars ==
  <<doi_input, dois, position, at, clean_doi, entries, printed, awaited, in_flight, outcomes>>
parseVars == <<source, parse_result>>
vars ==
  <<entry, edits, call, result, html, authors, listing, names, raw, typed, op, value,
    doi_input, dois, position, at, clean_doi, entries, printed, awaited, in_flight,
    outcomes, source, parse_result>>

Args(style, i, m, o, r) ==
  [style |-> style, idx |-> i, max_n |-> m, omit_title |-> o, reverse_authors |-> r]

\* No style function has been called on the entry / rtf_to_html has not run.
NoCall == Args("none", 0, None, FALSE, FALSE)
NotRun == <<-9>>

plain == result[1]
rtf == result[2]

\* No AuthorFormatter method has been called on the list.
NoListing == [style |-> "none", max_n |-> 0, reverse_authors |-> FALSE]

\* Nothing is being rendered / no author list is being formatted / no text is
\* being processed.
CiteIdle ==
  /\ entry = EmptyEntry /\ edits = 0 /\ call = NoCall /\ result = <<<<>>, <<>>>>
  /\ html = NotRun
ListIdle == authors = <<>> /\ listing = NoListing /\ names = <<>>
TextIdle == raw = <<>> /\ typed = 0 /\ op = "none" /\ value = <<>>
NoSource == [format |-> "none", raises |-> FALSE, e |-> <<>>, entries |-> <<>>]
NotParsed == [status |-> "none", entries |-> <<>>, error |-> <<>>, printed |-> <<>>]
ParseIdle == source = NoSource /\ parse_result = NotParsed
FetchIdle ==
  /\ doi_input = <<>>
  /\ dois = <<>>
  /\ position = 0
  /\ at = "idle"
  /\ clean_doi = <<>>
  /\ entries = <<>>
  /\ printed = <<>>
  /\ awaited = <<>>
  /\ in_flight = {}
  /\ outcomes = <<>>

Init ==
  /\ entry \in {SampleEntry, BookEntry, EmptyEntry}
  /\ edits = 0
  /\ call = NoCall
  /\ result = <<<<>>, <<>>>>
  /\ html = NotRun
  /\ ListIdle
  /\ TextIdle
  /\ FetchIdle
  /\ ParseIdle

\* entry[key] = value, before the entry is rendered
SetField ==
  \E k \in Keys : \E v \in FieldValues[k] :
    /\ call = NoCall
    /\ edits < MaxEdits
    /\ ~(k \in DOMAIN entry /\ entry[k] = v)
    /\ entry' = [x \in DOMAIN entry \cup {k} |-> IF x = k THEN v ELSE entry[x]]
    /\ edits' = edits + 1
    /\ UNCHANGED <<call, result, html, listVars, textVars, fetchVars, parseVars>>

\* del entry[key], before the entry is rendered
DelField ==
  \E k \in DOMAIN entry :
    /\ call = NoCall
    /\ edits < MaxEdits
    /\ entry' = [x \in DOMAIN entry \ {k} |-> entry[x]]
    /\ edits' = edits + 1
    /\ UNCHANGED <<call, result, html, listVars, textVars, fetchVars, parseVars>>

\* result = REFERENCE_STYLES["ACS"](entry, idx, max_n, omit_title, reverse_authors)
FormatAcs ==
  \E i \in Indexes, m \in MaxNs, o \in BOOLEAN, r \in BOOLEAN :
    /\ call = NoCall
    /\ call' = Args("ACS", i, m, o, r)
    /\ result' = format_acs(entry, i, m, o, r)
    /\ UNCHANGED <<entry, edits, html, listVars, textVars, fetchVars, parseVars>>

\* result = REFERENCE_STYLES["APA (7th)"](entry, idx, max_n, omit_title, reverse_authors)
FormatApa ==
  \E i \in Indexes, m \in MaxNs, o \in BOOLEAN, r \in BOOLEAN :
    /\ call = NoCall
    /\ call' = Args("APA (7th)", i, m, o, r)
    /\ result' = format_apa(entry, i, m, o, r)
    /\ UNCHANGED <<entry, edits, html, listVars, textVars, fetchVars, parseVars>>

\* result = REFERENCE_STYLES["Harvard"](entry, idx, max_n, omit_title, reverse_authors)
FormatHarvard ==
  \E i \in Indexes, m \in MaxNs, o \in BOOLEAN, r \in BOOLEAN :
    /\ call = NoCall
    /\ call' = Args("Harvard", i, m, o, r)
    /\ result' = format_harvard(entry, i, m, o, r)
    /\ UNCHANGED <<entry, edits, html, listVars, textVars, fetchVars, parseVars>>

\* result = REFERENCE_STYLES["Vancouver"](entry, idx, max_n, omit_title, reverse_authors)
FormatVancouver ==
  \E i \in Indexes, m \in MaxNs, o \in BOOLEAN, r \in BOOLEAN :
    /\ call = NoCall
    /\ call' = Args("Vancouver", i, m, o, r)
    /\ result' = format_vancouver(entry, i, m, o, r)
    /\ UNCHANGED <<entry, edits, html, listVars, textVars, fetchVars, parseVars>>

\* result = REFERENCE_STYLES["Angewandte"](entry, idx, max_n, omit_title, reverse_authors)
FormatAngewandte ==
  \E i \in Indexes, m \in MaxNs, o \in BOOLEAN, r \in BOOLEAN :
    /\ call = NoCall
    /\ call' = Args("Angewandte", i, m, o, r)
    /\ result' = format_angewandte(entry, i, m, o, r)
    /\ UNCHANGED <<entry, edits, html, listVars, textVars, fetchVars, parseVars>>

\* result = REFERENCE_STYLES["RSC"](entry, idx, max_n, omit_title, reverse_authors)
FormatRsc ==
  \E i \in Indexes, m \in MaxNs, o \in BOOLEAN, r \in BOOLEAN :
    /\ call = NoCall
    /\ call' = Args("RSC", i, m, o, r)
    /\ result' = format_rsc(entry, i, m, o, r)
    /\ UNCHANGED <<entry, edits, html, listVars, textVars, fetchVars, parseVars>>

\* result = REFERENCE_STYLES["AoA"](entry, idx, max_n, omit_title, reverse_authors)
FormatAoa ==
  \E i \in Indexes, m \in MaxNs, o \in BOOLEAN, r \in BOOLEAN :
    /\ call = NoCall
    /\ call' = Args("AoA", i, m, o, r)
    /\ result' = format_aoa(entry, i, m, o, r)
    /\ UNCHANGED <<entry, edits, html, listVars, textVars, fetchVars, parseVars>>

\* result = REFERENCE_STYLES["Nature"](entry, idx, max_n, omit_title, reverse_authors)
FormatNature ==
  \E i \in Indexes, m \in MaxNs, o \in BOOLEAN, r \in BOOLEAN :
    /\ call = NoCall
    /\ call' = Args("Nature", i, m, o, r)
    /\ result' = format_nature(entry, i, m, o, r)
    /\ UNCHANGED <<entry, edits, html, listVars, textVars, fetchVars, parseVars>>

\* result = REFERENCE_STYLES["IEEE"](entry, idx, max_n, omit_title, reverse_authors)
FormatIeee ==
  \E i \in Indexes, m \in MaxNs, o \in BOOLEAN, r \in BOOLEAN :
    /\ call = NoCall
    /\ call' = Args("IEEE", i, m, o, r)
    /\ result' = format_ieee(entry, i, m, o, r)
    /\ UNCHANGED <<entry, edits, html, listVars, textVars, fetchVars, parseVars>>

\* result = REFERENCE_STYLES["ISO 690"](entry, idx, max_n, omit_title, reverse_authors)
FormatIso690 ==
  \E i \in Indexes, m \in MaxNs, o \in BOOLEAN, r \in BOOLEAN :
    /\ call = NoCall
    /\ call' = Args("ISO 690", i, m, o, r)
    /\ result' = format_iso690(entry, i, m, o, r)
    /\ UNCHANGED <<entry, edits, html, listVars, textVars, fetchVars, parseVars>>

\* The style function returned its pair (format_apa raises IndexError where
\* AuthorFormatter.apa does).
Returned == call # NoCall /\ plain # IndexError

\* html = rtf_to_html(rtf), as test_rispy.py does with every rendered entry
RtfToHtml ==
  /\ Returned
  /\ html = NotRun
  /\ html' = rtf_to_html(rtf)
  /\ UNCHANGED <<entry, edits, call, result, listVars, textVars, fetchVars, parseVars>>

Next ==
  \/ SetField
  \/ DelField
  \/ FormatAcs
  \/ FormatApa
  \/ FormatHarvard
  \/ FormatVancouver
  \/ FormatAngewandte
  \/ FormatRsc
  \/ FormatAoa
  \/ FormatNature
  \/ FormatIeee
  \/ FormatIso690
  \/ RtfToHtml

Spec == Init /\ [][Next]_vars


----------------------------------------------------------------------------
\* Formatting an author list: the caller holds the records parse_authors
\* returned and calls one AuthorFormatter method on them.

\* The longest author list, and the caps a caller passes as max_n.
MaxAuthors == 8
Caps == 0..MaxAuthors

\* The given names an author comes with: none (an organization), or two.
Givens == {<<>>, Str(<<"K", "e", "n", "t", " ", "E">>)}

\* The i-th author of a list has a family name of their own: "Aell", "Bell", ...
Person(i, given) == [family |-> <<64 + i>> \o Str(<<"e", "l", "l">>), given |-> given]

InitAuthors ==
  /\ authors = <<>>
  /\ listing = NoListing
  /\ names = <<>>
  /\ CiteIdle
  /\ TextIdle
  /\ FetchIdle
  /\ ParseIdle

\* authors.append({"family": family, "given": given}), before the list is formatted
AddAuthor ==
  \E g \in Givens :
    /\ listing = NoListing
    /\ Len(authors) < MaxAuthors
    /\ authors' = Append(authors, Person(Len(authors) + 1, g))
    /\ UNCHANGED <<listing, names, citeVars, textVars, fetchVars, parseVars>>

\* names = AuthorFormatter.acs(authors, max_n, reverse_authors)
Acs ==
  \E m \in Caps, r \in BOOLEAN :
    /\ listing = NoListing
    /\ listing' = [style |-> "acs", max_n |-> m, reverse_authors |-> r]
    /\ names' = acs(authors, m, r)
    /\ UNCHANGED <<authors, citeVars, textVars, fetchVars, parseVars>>

\* names = AuthorFormatter.apa(authors, max_n, reverse_authors)
Apa ==
  \E m \in Caps, r \in BOOLEAN :
    /\ listing = NoListing
    /\ listing' = [style |-> "apa", max_n |-> m, reverse_authors |-> r]
    /\ names' = apa(authors, m, r)
    /\ UNCHANGED <<authors, citeVars, textVars, fetchVars, parseVars>>

\* names = AuthorFormatter.vancouver(authors, max_n, reverse_authors)
Vancouver ==
  \E m \in Caps, r \in BOOLEAN :
    /\ listing = NoListing
    /\ listing' = [style |-> "vancouver", max_n |-> m, reverse_authors |-> r]
    /\ names' = vancouver(authors, m, r)
    /\ UNCHANGED <<authors, citeVars, textVars, fetchVars, parseVars>>

\* names = AuthorFormatter.nature(authors, max_n, reverse_authors)
Nature ==
  \E m \in Caps, r \in BOOLEAN :
    /\ listing = NoListing
    /\ listing' = [style |-> "nature", max_n |-> m, reverse_authors |-> r]
    /\ names' = nature(authors, m, r)
    /\ UNCHANGED <<authors, citeVars, textVars, fetchVars, parseVars>>

\* names = AuthorFormatter.ieee(authors, max_n, reverse_authors)
Ieee ==
  \E m \in Caps, r \in BOOLEAN :
    /\ listing = NoListing
    /\ listing' = [style |-> "ieee", max_n |-> m, reverse_authors |-> r]
    /\ names' = ieee(authors, m, r)
    /\ UNCHANGED <<authors, citeVars, textVars, fetchVars, parseVars>>

\* names = AuthorFormatter.iso690(authors, max_n, reverse_authors)
Iso690 ==
  \E m \in Caps, r \in BOOLEAN :
    /\ listing = NoListing
    /\ listing' = [style |-> "iso690", max_n |-> m, reverse_authors |-> r]
    /\ names' = iso690(authors, m, r)
    /\ UNCHANGED <<authors, citeVars, textVars, fetchVars, parseVars>>

\* names = AuthorFormatter.harvard(authors, max_n, reverse_authors)
Harvard ==
  \E m \in Caps, r \in BOOLEAN :
    /\ listing = NoListing
    /\ listing' = [style |-> "harvard", max_n |-> m, reverse_authors |-> r]
    /\ names' = harvard(authors, m, r)
    /\ UNCHANGED <<authors, citeVars, textVars, fetchVars, parseVars>>

NextAuthors ==
  \/ AddAuthor
  \/ Acs
  \/ Apa
  \/ Vancouver
  \/ Nature
  \/ Ieee
  \/ Iso690
  \/ Harvard

SpecAuthors == InitAuthors /\ [][NextAuthors]_vars

----------------------------------------------------------------------------
\* Processing a field text: the text is put together from pieces, then
\* clean_latex or parse_authors is applied to it.

\* The texts a field starts from, and the pieces appended to it.
Seeds == {<<>>, Str(<<"W", "o", "r", "l", "d", " ", "H", "e", "a", "l", "t", "h", " ", "O", "r", "g", "a", "n", "i", "z", "a", "t", "i", "o", "n">>), Str(<<"{", "{", "L", "i", "}", "}">>)}
Alphabet ==
  {Str(<<"L", "i">>),
   Str(<<" ">>),
   Str(<<",">>),
   Str(<<" ", "a", "n", "d", " ">>),
   Str(<<" ", "A", "N", "D", " ">>),
   Str(<<"-">>),
   Str(<<"-", "-">>),
   Str(<<"{">>),
   Str(<<"}">>),
   Str(<<"\\", "'", "e">>)}

\* How many pieces are appended.
MaxPieces == 3

InitText ==
  /\ raw \in Seeds
  /\ typed = 0
  /\ op = "none"
  /\ value = <<>>
  /\ CiteIdle
  /\ ListIdle
  /\ FetchIdle
  /\ ParseIdle

\* raw += piece, before the text is processed
Type ==
  \E piece \in Alphabet :
    /\ op = "none"
    /\ typed < MaxPieces
    /\ raw' = raw \o piece
    /\ typed' = typed + 1
    /\ UNCHANGED <<op, value, citeVars, listVars, fetchVars, parseVars>>

\* value = BibTeXProcessor.clean_latex(raw)
CleanLatex ==
  /\ op = "none"
  /\ op' = "clean_latex"
  /\ value' = clean_latex(raw)
  /\ UNCHANGED <<raw, typed, citeVars, listVars, fetchVars, parseVars>>

\* value = BibTeXProcessor.parse_authors(raw)
ParseAuthors ==
  /\ op = "none"
  /\ op' = "parse_authors"
  /\ value' = parse_authors(raw)
  /\ UNCHANGED <<raw, typed, citeVars, listVars, fetchVars, parseVars>>

NextText ==
  \/ Type
  \/ CleanLatex
  \/ ParseAuthors

SpecText == InitText /\ [][NextText]_vars

----------------------------------------------------------------------------
\* What the specification says of the reference styles, stated on the
\* rendering of one entry (Spec).

\* What stands at index k of a marked-up text, read from left to right: the
\* opening of a wrap command or its closing brace (dropped), an escaped
\* backslash or brace (the character itself), \u<code point>? (the character
\* with that code point); its length, or 0 for a character that stands for itself.
EscapedAt(m, k) == m[k] = 92 /\ k < Len(m) /\ m[k + 1] \in {92, 123, 125}

MarkupLen(m, k) ==
  IF StartsAt(m, k, Str(<<"{", "\\", "i", " ">>)) THEN 4
  ELSE IF StartsAt(m, k, Str(<<"{", "\\", "b", " ">>)) THEN 4
  ELSE IF StartsAt(m, k, Str(<<"{", "\\", "s", "u", "p", "e", "r", " ">>)) THEN 8
  ELSE IF m[k] = 125 THEN 1
  ELSE IF EscapedAt(m, k) THEN 2
  ELSE IF UnicodeMatch(m, k) > 0 THEN UnicodeMatch(m, k) + 3
  ELSE 0

MarkupText(m, k) ==
  IF EscapedAt(m, k) THEN <<m[k + 1]>>
  ELSE IF m[k] = 92 /\ UnicodeMatch(m, k) > 0
       THEN <<ParseInt(SubSeq(m, k + 2, k + 1 + UnicodeMatch(m, k)))>>
  ELSE <<>>

\* The marked-up text with its wrap commands removed and its escapes undone.
StripMarkup(m) ==
  Rewrite(m, [k \in 1..Len(m) |-> MarkupLen(m, k)], [k \in 1..Len(m) |-> MarkupText(m, k)], 1)

\* The length of the display tag at index k of h, or 0.
TagLen(h, k) ==
  IF StartsAt(h, k, Str(<<"<", "i", ">">>)) \/ StartsAt(h, k, Str(<<"<", "b", ">">>)) THEN 3
  ELSE IF StartsAt(h, k, Str(<<"<", "/", "i", ">">>))
          \/ StartsAt(h, k, Str(<<"<", "/", "b", ">">>))
          \/ StartsAt(h, k, Str(<<"<", "b", "r", ">">>)) THEN 4
  ELSE IF StartsAt(h, k, Str(<<"<", "s", "u", "p", ">">>)) THEN 5
  ELSE IF StartsAt(h, k, Str(<<"<", "/", "s", "u", "p", ">">>)) THEN 6
  ELSE 0

\* The display text with its tags removed.
RemoveTags(h) == Rewrite(h, [k \in 1..Len(h) |-> TagLen(h, k)], [k \in 1..Len(h) |-> <<>>], 1)

\* C1: whatever the style, the entry kind, omit_title and the fields present,
\* the marked-up output with its wrap commands removed and its escapes undone
\* is exactly the plain output of the same call.
C1_MarkupMatchesPlain == Returned => StripMarkup(rtf) = plain

\* C2: rtf_to_html of the marked-up output, with the display tags removed, is
\* the plain output of the same call, whatever the field text holds; stated
\* for the calls whose two outputs agree (C1), where rtf_to_html alone decides.
C2_HtmlRoundTrip ==
  (Returned /\ html # NotRun /\ StripMarkup(rtf) = plain) => RemoveTags(html) = plain

\* The index a style puts in front of the citation.
IndexPrefix(style, idx) ==
  IF style \in {"Vancouver", "Nature"} THEN Decimal(idx) \o Str(<<".", " ">>)
  ELSE IF style \in {"IEEE", "ISO 690"}
       THEN Str(<<"[">>) \o Decimal(idx) \o Str(<<"]", " ">>)
  ELSE <<>>

\* The citation behind its index prefix.
Behind(prefix, text) ==
  IF prefix # <<>> /\ StartsWith(text, prefix) THEN From(text, Len(prefix) + 1) ELSE text

\* The text starts with a space, a comma or a period.
StrayStart(text) == text # <<>> /\ text[1] \in {32, 44, 46}

\* The entry has no author (the key absent or empty) and every other field
\* of one of the two sample entries, so that whatever stands first in the
\* citation is what the style puts around its author segment.
OnlyAuthorMissing ==
  /\ Get(entry, "author", <<>>) = <<>>
  /\ \E e \in {SampleEntry, BookEntry} :
       \A k \in DOMAIN e \ {"author"} : k \in DOMAIN entry /\ entry[k] = e[k]

\* C4: for an entry with no author (the key absent or empty), in every style
\* and for every entry kind, the citation behind its index prefix does not
\* start with a space, a comma or a period left by the empty author segment.
C4_NoAuthorLeadingPunctuation ==
  (Returned /\ OnlyAuthorMissing)
    => ~StrayStart(Behind(IndexPrefix(call.style, call.idx), plain))

\* The call of the concrete ACS scenario: format_acs on the sample article,
\* omit_title false, the default cap.
AcsScenario ==
  /\ entry = SampleEntry
  /\ call.style = "ACS" /\ call.max_n = None
  /\ ~call.omit_title /\ ~call.reverse_authors

ScenarioPlain ==
  Str(<<"D", "m", "i", "t", "r", "i", "e", "n", "k", "o", ",", " ", "G", ".", " ",
      "I", ".", ";", " ", "N", "i", "e", "l", "s", "e", "n", ",", " ", "K", ".", " ",
      "E", ".", " ", "N", "-", "c", "y", "a", "n", "o", "i", "n", "d", "o", "l", "e",
      "s", ".", ".", ".", ".", " ", "T", "e", "t", "r", "a", "h", "e", "d", "r", "o",
      "n", " ", "L", "e", "t", "t", "e", "r", "s", " ", "1", "9", "9", "0", ",", " ",
      "3", "1", ",", " ", "3", "6", "8", "1">>) \o <<8211>> \o Str(<<"3", "6", "8",
      "4", ".", " ", "D", "O", "I", ":", " ", "1", "0", ".", "1", "0", "1", "6", "/",
      "s", "0", "0", "4", "0", "-", "4", "0", "3", "9", "(", "0", "0", ")", "9", "7",
      "4", "4", "3", "-", "4">>)

ScenarioPlainThreeDots ==
  Str(<<"D", "m", "i", "t", "r", "i", "e", "n", "k", "o", ",", " ", "G", ".", " ",
      "I", ".", ";", " ", "N", "i", "e", "l", "s", "e", "n", ",", " ", "K", ".", " ",
      "E", ".", " ", "N", "-", "c", "y", "a", "n", "o", "i", "n", "d", "o", "l", "e",
      "s", ".", ".", ".", " ", "T", "e", "t", "r", "a", "h", "e", "d", "r", "o", "n",
      " ", "L", "e", "t", "t", "e", "r", "s", " ", "1", "9", "9", "0", ",", " ", "3",
      "1", ",", " ", "3", "6", "8", "1">>) \o <<8211>> \o Str(<<"3", "6", "8", "4",
      ".", " ", "D", "O", "I", ":", " ", "1", "0", ".", "1", "0", "1", "6", "/", "s",
      "0", "0", "4", "0", "-", "4", "0", "3", "9", "(", "0", "0", ")", "9", "7", "4",
      "4", "3", "-", "4">>)

ScenarioRtf ==
  Str(<<"D", "m", "i", "t", "r", "i", "e", "n", "k", "o", ",", " ", "G", ".", " ",
      "I", ".", ";", " ", "N", "i", "e", "l", "s", "e", "n", ",", " ", "K", ".", " ",
      "E", ".", " ", "N", "-", "c", "y", "a", "n", "o", "i", "n", "d", "o", "l", "e",
      "s", ".", ".", ".", ".", " ", "{", "\\", "i", " ", "T", "e", "t", "r", "a",
      "h", "e", "d", "r", "o", "n", " ", "L", "e", "t", "t", "e", "r", "s", "}", " ",
      "1", "9", "9", "0", ",", " ", "{", "\\", "i", " ", "3", "1", "}", ",", " ",
      "3", "6", "8", "1", "\\", "u", "8", "2", "1", "1", "?", "3", "6", "8", "4",
      ".", " ", "D", "O", "I", ":", " ", "1", "0", ".", "1", "0", "1", "6", "/", "s",
      "0", "0", "4", "0", "-", "4", "0", "3", "9", "(", "0", "0", ")", "9", "7", "4",
      "4", "3", "-", "4">>)

\* C10 (as the code has it): the ACS scenario returns the plain string with
\* the title "N-cyanoindoles..." followed by the template's own period (four
\* periods in all) and an en-dash in the pages, and a marked-up string in
\* which exactly the journal and the volume are wrapped in {\i ...}.
C10_AcsScenario == AcsScenario => plain = ScenarioPlain /\ rtf = ScenarioRtf

\* C10 as stated: the plain string has "N-cyanoindoles..." with three periods.
C10_AsStated == AcsScenario => plain = ScenarioPlainThreeDots

C10_Witness == AcsScenario /\ Returned

----------------------------------------------------------------------------
\* What the specification says of clean_latex and parse_authors, stated on
\* the processing of one field text (SpecText).

\* C3: clean_latex is idempotent: cleaning the cleaned text again changes
\* nothing, whatever the text (nested braces, runs of hyphens, accents).
C3_CleanLatexIdempotent == op = "clean_latex" => clean_latex(value) = value

WorldHealthOrganization ==
  Str(<<"W", "o", "r", "l", "d", " ", "H", "e", "a", "l", "t", "h", " ", "O", "r",
      "g", "a", "n", "i", "z", "a", "t", "i", "o", "n">>)

\* The seven author-list styles, with their default caps.
Renderings(parsed) ==
  {acs(parsed, 10, FALSE), apa(parsed, 7, FALSE), vancouver(parsed, 6, FALSE),
   nature(parsed, 5, FALSE), ieee(parsed, 6, FALSE), iso690(parsed, 3, FALSE),
   harvard(parsed, 3, FALSE)}

\* Every style renders the parsed author as the bare name, whatever its case.
RenderedBare(parsed, name) == \A shown \in Renderings(parsed) : lower(shown) = lower(name)

\* C5: "World Health Organization" is parsed into the one record with the
\* whole name as family and no given name, and every author-list style
\* renders it as the bare organization name, with no initials.
C5_OrganizationKeptWhole ==
  (op = "parse_authors" /\ raw = WorldHealthOrganization)
    => /\ value = <<[family |-> WorldHealthOrganization, given |-> <<>>]>>
       /\ RenderedBare(value, WorldHealthOrganization)

\* The segments of the normalized author string that are not empty, with the
\* whitespace around them removed.
Stripped(parts) == [i \in 1..Len(parts) |-> strip(parts[i])]

NotEmpty(text) == text # <<>>

Segments(text) == SelectSeq(Stripped(SplitAnd(clean_latex(text))), NotEmpty)

\* The record author is what the segment says: with a comma, the family is
\* the text before the first comma and the given name the remainder (the
\* whitespace around each removed); without one, the family is the last
\* token and the given name the tokens before it, a space between them.
HasComma(segment) == \E k \in 1..Len(segment) : segment[k] = 44

Describes(segment, author) ==
  IF HasComma(segment)
  THEN /\ \A k \in 1..Len(author.family) : author.family[k] # 44
       /\ \E k \in 1..Len(segment) :
            /\ segment[k] = 44
            /\ author.family = strip(SubSeq(segment, 1, k - 1))
            /\ author.given = strip(SubSeq(segment, k + 1, Len(segment)))
  ELSE /\ split(segment) = split(author.given) \o <<author.family>>
       /\ author.given = join(Str(<<" ">>), split(author.given))

DescribedBy(segments, parsed) ==
  /\ Len(parsed) = Len(segments)
  /\ \A i \in 1..Len(segments) : Describes(segments[i], parsed[i])

\* C6: parse_authors never fails and returns the records in the order of the
\* input: none for an empty input; otherwise one record for every non-empty
\* segment of the normalized string split on the word "and" (in any case,
\* between whitespace), the family and the given name as the segment has them.
C6_ParseAuthors ==
  op = "parse_authors"
    => /\ raw = <<>> => value = <<>>
       /\ DescribedBy(Segments(raw), value)

\* Two authors, the first without a comma and with given names, the second
\* with a comma.
C6_Witness ==
  /\ op = "parse_authors"
  /\ Len(value) = 2
  /\ value[1].given # <<>> /\ ~HasComma(Segments(raw)[1])
  /\ HasComma(Segments(raw)[2])

----------------------------------------------------------------------------
\* What the specification says of the author-list styles, stated on the
\* formatting of one author list (SpecAuthors).

Listed == listing.style # "none"

\* The formatted author of a style.
NameOf(style, a) ==
  IF style \in {"acs", "apa", "nature"} THEN family_initials(a)
  ELSE IF style = "vancouver" THEN vancouver_name(a)
  ELSE IF style = "ieee" THEN ieee_name(a)
  ELSE IF style = "iso690" THEN iso690_name(a)
  ELSE harvard_name(a)

\* The formatted authors of the first max_n authors, in the order of the list.
InOrder(style, list, max_n) ==
  [i \in 1..Min(Len(list), max_n) |-> NameOf(style, list[i])]

\* The first and the last of them exchanged, every other one in its place.
Exchanged(fmt) ==
  [i \in 1..Len(fmt) |->
     IF i = 1 THEN fmt[Len(fmt)] ELSE IF i = Len(fmt) THEN fmt[1] ELSE fmt[i]]

\* The formatted authors as the output lists them.
Shown(style, list, max_n, reverse_authors) ==
  IF reverse_authors THEN Exchanged(InOrder(style, list, max_n))
  ELSE InOrder(style, list, max_n)

\* The grammar of a style: what stands between two authors of a longer list,
\* between the two authors of a list of two, before the last author of a list
\* of three or more, and behind a truncated list.
Separator(style) == IF style = "acs" THEN Str(<<";", " ">>) ELSE Str(<<",", " ">>)

DualConjunction(style) ==
  IF style \in {"apa", "nature"} THEN Str(<<" ", "&", " ">>)
  ELSE IF style \in {"ieee", "harvard"} THEN Str(<<" ", "a", "n", "d", " ">>)
  ELSE Separator(style)

TerminalConjunction(style) ==
  IF style = "apa" THEN Str(<<",", " ", "&", " ">>)
  ELSE IF style = "ieee" THEN Str(<<",", " ", "a", "n", "d", " ">>)
  ELSE DualConjunction(style)

EtAl == Str(<<"e", "t", " ", "a", "l", ".">>)

TruncationMarker(style) ==
  IF style = "acs" THEN Str(<<";", " ">>) \o EtAl
  ELSE IF style \in {"nature", "harvard"} THEN Str(<<" ">>) \o EtAl
  ELSE Str(<<",", " ">>) \o EtAl

EndsWith(text, suffix) ==
  Len(text) >= Len(suffix) /\ SubSeq(text, Len(text) - Len(suffix) + 1, Len(text)) = suffix

Ellipsis == Str(<<",", " ", ".", ".", ".", " ">>)

\* The list is longer than a cap of at least one.
Truncated == Listed /\ listing.max_n >= 1 /\ Len(authors) > listing.max_n

\* The output of a truncated list: in the six styles with an "et al." marker,
\* the listed authors, the separator between them, then the marker; in APA,
\* the first six of the listed authors at most, the separator between them,
\* then an ellipsis, and neither "et al." nor "&".
TruncatedForm(style, fmt, text) ==
  IF style = "apa"
  THEN /\ StartsWith(text, join(Separator(style), SubSeq(fmt, 1, Min(Len(fmt), 6))) \o Ellipsis)
       /\ ~EndsWith(text, EtAl)
       /\ \A k \in 1..Len(text) : text[k] # 38
  ELSE text = join(Separator(style), fmt) \o TruncationMarker(style)

\* C7 (as the code has it): for a list longer than maxN (maxN >= 1), six
\* styles return the first maxN formatted authors joined by the separator and
\* followed by the style's "et al." marker, with no terminal conjunction; APA
\* has no "et al." marker, it puts an ellipsis behind the first six at most.
C7_Truncation ==
  Truncated
    => TruncatedForm(listing.style,
                     Shown(listing.style, authors, listing.max_n, listing.reverse_authors),
                     names)

\* C7 as stated: in every style the output of a list longer than maxN is the
\* first maxN formatted authors joined by the separator, then a marker that
\* ends with "et al.".
MarkedEtAl(style, fmt, text) ==
  /\ StartsWith(text, join(Separator(style), fmt))
  /\ EndsWith(text, EtAl)

C7_AsStated ==
  Truncated
    => MarkedEtAl(listing.style,
                  Shown(listing.style, authors, listing.max_n, listing.reverse_authors),
                  names)

C7_Witness == Truncated /\ listing.style = "apa" /\ listing.max_n >= 7

\* The output of a list that is not truncated.
Tiered(style, fmt) ==
  IF Len(fmt) = 0 THEN <<>>
  ELSE IF Len(fmt) = 1 THEN fmt[1]
  ELSE IF Len(fmt) = 2 THEN fmt[1] \o DualConjunction(style) \o fmt[2]
  ELSE join(Separator(style), SubSeq(fmt, 1, Len(fmt) - 1))
       \o TerminalConjunction(style) \o fmt[Len(fmt)]

Returns(style, fmt, truncated) ==
  IF style = "acs" THEN acs_join(fmt, truncated)
  ELSE IF style = "apa" THEN apa_join(fmt, truncated)
  ELSE IF style = "vancouver" THEN vancouver_join(fmt, truncated)
  ELSE IF style = "nature" THEN nature_join(fmt, truncated)
  ELSE IF style = "ieee" THEN ieee_join(fmt, truncated)
  ELSE IF style = "iso690" THEN iso690_join(fmt, truncated)
  ELSE harvard_join(fmt, truncated)

\* The output with reverse_authors false, for the same list and cap.
Unreversed(style, list, max_n) ==
  IF style = "acs" THEN acs(list, max_n, FALSE)
  ELSE IF style = "apa" THEN apa(list, max_n, FALSE)
  ELSE IF style = "vancouver" THEN vancouver(list, max_n, FALSE)
  ELSE IF style = "nature" THEN nature(list, max_n, FALSE)
  ELSE IF style = "ieee" THEN ieee(list, max_n, FALSE)
  ELSE IF style = "iso690" THEN iso690(list, max_n, FALSE)
  ELSE harvard(list, max_n, FALSE)

\* C9: with reverse_authors and at least two formatted authors, the output is
\* the output without the option with the first and the last formatted
\* author exchanged and every other author in its place; with fewer than two
\* formatted authors it is the output without the option.
C9_Reversal ==
  (Listed /\ listing.reverse_authors /\ authors # <<>>)
    => IF Min(Len(authors), listing.max_n) >= 2
       THEN /\ names = Returns(listing.style,
                               Exchanged(InOrder(listing.style, authors, listing.max_n)),
                               Len(authors) > listing.max_n)
            /\ Unreversed(listing.style, authors, listing.max_n)
                 = Returns(listing.style,
                           InOrder(listing.style, authors, listing.max_n),
                           Len(authors) > listing.max_n)
       ELSE names = Unreversed(listing.style, authors, listing.max_n)

C9_Witness ==
  /\ Listed /\ listing.reverse_authors
  /\ Len(authors) >= 4 /\ listing.max_n = 3
  /\ names # Unreversed(listing.style, authors, listing.max_n)

----------------------------------------------------------------------------
\* Further statements on the rendering of one entry (Spec).

\* The call of the concrete Nature scenario: format_nature on the sample
\* article with idx 1 and the default cap.
NatureScenario ==
  /\ entry = SampleEntry
  /\ call.style = "Nature" /\ call.idx = 1 /\ call.max_n = None
  /\ ~call.reverse_authors

NatureOpening ==
  Str(<<"1", ".", " ", "D", "m", "i", "t", "r", "i", "e", "n", "k", "o", ",", " ",
      "G", ".", " ", "I", ".", " ", "&", " ", "N", "i", "e", "l", "s", "e", "n", ",",
      " ", "K", ".", " ", "E", ".", " ">>)

BoldVolume ==
  Str(<<"{", "\\", "b", " ", "3", "1", "}">>)

BoldCommand == Str(<<"{", "\\", "b", " ">>)

\* The one bold command of the text wraps the volume.
OnlyVolumeBold(text) ==
  /\ FindSub(text, BoldCommand, 1) > 0
  /\ FindSub(text, BoldCommand, 1) = FindSub(text, BoldVolume, 1)
  /\ FindSub(text, BoldCommand, FindSub(text, BoldCommand, 1) + 1) = 0

\* C11: format_nature on the sample article with idx 1 returns a plain string
\* that begins with "1. Dmitrienko, G. I. & Nielsen, K. E. " and a marked-up
\* string in which the volume is wrapped in the bold command.
C11_NatureScenario ==
  NatureScenario => StartsWith(plain, NatureOpening) /\ OnlyVolumeBold(rtf)

C11_Witness == NatureScenario /\ Returned /\ ~call.omit_title

----------------------------------------------------------------------------
\* Citing one entry in the text: the caller picks an in-text style from
\* INTEXT_STYLES and calls it on the entry with the index of the reference.

\* An entry with three authors.
TeamEntry ==
  [k \in {"author", "title", "year", "ENTRYTYPE"} |->
     CASE k = "author" -> Str(<<"C", "u", "r", "i", "e", ",", " ", "M", "a", "r", "i", "e", " ", "a", "n", "d", " ", "M", "e", "i", "t", "n", "e", "r", ",", " ", "L", "i", "s", "e", " ", "a", "n", "d", " ", "N", "o", "e", "t", "h", "e", "r", ",", " ", "E", "m", "m", "y">>)
       [] k = "title" -> Str(<<"C", "o", "l", "l", "e", "c", "t", "e", "d", " ", "N", "o", "t", "e", "s">>)
       [] k = "year" -> Str(<<"1", "9", "2", "1">>)
       [] k = "ENTRYTYPE" -> Str(<<"m", "i", "s", "c">>)]

\* The idx argument of an in-text call.
InTextIndexes == {1, 12}

InitInText ==
  /\ entry \in {SampleEntry, BookEntry, EmptyEntry, TeamEntry}
  /\ edits = 0
  /\ call = NoCall
  /\ result = <<<<>>, <<>>>>
  /\ html = NotRun
  /\ ListIdle
  /\ TextIdle
  /\ FetchIdle
  /\ ParseIdle

\* plain, rtf = INTEXT_STYLES["(Author, Year)"](entry, idx)
AuthorYear ==
  \E i \in InTextIndexes :
    /\ call = NoCall
    /\ call' = Args("(Author, Year)", i, None, FALSE, FALSE)
    /\ result' = author_year(entry, i)
    /\ UNCHANGED <<entry, edits, html, listVars, textVars, fetchVars, parseVars>>

\* plain, rtf = INTEXT_STYLES["Author (Year)"](entry, idx)
AuthorYearNarrative ==
  \E i \in InTextIndexes :
    /\ call = NoCall
    /\ call' = Args("Author (Year)", i, None, FALSE, FALSE)
    /\ result' = author_year_narrative(entry, i)
    /\ UNCHANGED <<entry, edits, html, listVars, textVars, fetchVars, parseVars>>

\* plain, rtf = INTEXT_STYLES["[n]"](entry, idx)
Numbered ==
  \E i \in InTextIndexes :
    /\ call = NoCall
    /\ call' = Args("[n]", i, None, FALSE, FALSE)
    /\ result' = numbered(entry, i)
    /\ UNCHANGED <<entry, edits, html, listVars, textVars, fetchVars, parseVars>>

\* plain, rtf = INTEXT_STYLES["Superscript"](entry, idx)
Superscript ==
  \E i \in InTextIndexes :
    /\ call = NoCall
    /\ call' = Args("Superscript", i, None, FALSE, FALSE)
    /\ result' = intext_superscript(entry, i)
    /\ UNCHANGED <<entry, edits, html, listVars, textVars, fetchVars, parseVars>>

NextInText ==
  \/ SetField
  \/ DelField
  \/ AuthorYear
  \/ AuthorYearNarrative
  \/ Numbered
  \/ Superscript

SpecInText == InitInText /\ [][NextInText]_vars

----------------------------------------------------------------------------
\* Rendering or citing one entry, in any style of the two registries.

\* REFERENCE_STYLES[name](entry, idx, max_n, omit_title, reverse_authors)
reference_style(name, e, i, m, o, r) ==
  IF name = "ACS" THEN format_acs(e, i, m, o, r)
  ELSE IF name = "APA (7th)" THEN format_apa(e, i, m, o, r)
  ELSE IF name = "Harvard" THEN format_harvard(e, i, m, o, r)
  ELSE IF name = "Vancouver" THEN format_vancouver(e, i, m, o, r)
  ELSE IF name = "Angewandte" THEN format_angewandte(e, i, m, o, r)
  ELSE IF name = "RSC" THEN format_rsc(e, i, m, o, r)
  ELSE IF name = "AoA" THEN format_aoa(e, i, m, o, r)
  ELSE IF name = "Nature" THEN format_nature(e, i, m, o, r)
  ELSE IF name = "IEEE" THEN format_ieee(e, i, m, o, r)
  ELSE format_iso690(e, i, m, o, r)

\* INTEXT_STYLES[name](entry, idx)
intext_style(name, e, i) ==
  IF name = "(Author, Year)" THEN author_year(e, i)
  ELSE IF name = "Author (Year)" THEN author_year_narrative(e, i)
  ELSE IF name = "[n]" THEN numbered(e, i)
  ELSE intext_superscript(e, i)

InTextStyles == {"(Author, Year)", "Author (Year)", "[n]", "Superscript"}

NextStyles ==
  \/ SetField
  \/ DelField
  \/ FormatAcs
  \/ FormatApa
  \/ FormatHarvard
  \/ FormatVancouver
  \/ FormatAngewandte
  \/ FormatRsc
  \/ FormatAoa
  \/ FormatNature
  \/ FormatIeee
  \/ FormatIso690
  \/ RtfToHtml
  \/ AuthorYear
  \/ AuthorYearNarrative
  \/ Numbered
  \/ Superscript

SpecStyles == InitInText /\ [][NextStyles]_vars

\* What the call c returns for the entry e.
Rendered(c, e) ==
  IF c.style \in InTextStyles THEN intext_style(c.style, e, c.idx)
  ELSE reference_style(c.style, e, c.idx, c.max_n, c.omit_title, c.reverse_authors)

StartEntries == {SampleEntry, BookEntry, EmptyEntry, TeamEntry}

With(e, k, v) == [x \in DOMAIN e \cup {k} |-> IF x = k THEN v ELSE e[x]]

Without(e, k) == [x \in DOMAIN e \ {k} |-> e[x]]

\* A style has just been called on the entry.
Called == call # NoCall /\ html = NotRun

\* What the entry lacks: any key a start entry does not have, and the key
\* deleted from a start entry.
Lacks(k) ==
  \/ entry \in StartEntries /\ k \notin DOMAIN entry
  \/ \E e \in StartEntries : k \in DOMAIN e /\ entry = Without(e, k)

\* C12 (as the code has it): the call completes, and for every key but
\* ENTRYTYPE the entry lacks, it returns what it returns for the same entry
\* with the key set to the empty string; an entry that lacks ENTRYTYPE is
\* rendered as the same entry with ENTRYTYPE "article".
C12_MissingKey ==
  Called
    => /\ call.max_n = None => plain # IndexError
       /\ \A k \in Keys :
            Lacks(k)
              => result = Rendered(call,
                                   With(entry, k,
                                        IF k = "ENTRYTYPE"
                                        THEN Str(<<"a", "r", "t", "i", "c", "l", "e">>)
                                        ELSE <<>>))

\* C12 as stated: for every key the entry lacks, ENTRYTYPE too, the call
\* returns what it returns for the same entry with the key set to the empty
\* string.
C12_AsStated ==
  Called => \A k \in Keys : Lacks(k) => result = Rendered(call, With(entry, k, <<>>))

C12_Witness ==
  /\ Called /\ call.style = "ACS"
  /\ entry = Without(SampleEntry, "pages")

----------------------------------------------------------------------------
\* Further statements on the rendering of one entry (Spec): empty fields.

\* The fields whose segment a template renders, by the key of the entry.
SegmentKeys ==
  {"journal", "year", "volume", "number", "pages", "publisher", "address", "title"}

\* One field of a sample entry has been set to the empty string; every other
\* field is as the sample has it.
OneFieldEmptied ==
  \E e \in {SampleEntry, BookEntry} :
    \E k \in SegmentKeys \cap DOMAIN e : entry = With(e, k, <<>>)

\* What an empty segment must not leave behind.
Leftovers ==
  {Str(<<",", " ", ",">>),
   Str(<<",", " ", ".">>),
   Str(<<"(", ")">>),
   Str(<<":", " ", ",">>),
   Str(<<"N", "o", "n", "e">>),
   Str(<<"n", "u", "l", "l">>)}

HasLeftover(text) == \E l \in Leftovers : FindSub(text, l, 1) > 0

\* C13: when a field is empty, its segment is rendered as empty and the
\* punctuation around it is omitted: the output holds no "None" or "null"
\* and no leftover ", ,", ", .", "()" or ": ,".
C13_EmptyFieldTolerant ==
  (Returned /\ OneFieldEmptied) => ~HasLeftover(plain) /\ ~HasLeftover(rtf)

----------------------------------------------------------------------------
\* Further statements on the rendering of one entry (Spec): the DOI and the
\* entry kinds.

\* The kind a template dispatches on.
Kind(e) == lower(Get(e, "ENTRYTYPE", Str(<<"a", "r", "t", "i", "c", "l", "e">>)))

IsArticle(e) == Kind(e) = Str(<<"a", "r", "t", "i", "c", "l", "e">>)

IsBook(e) == Kind(e) = Str(<<"b", "o", "o", "k">>)

IsOther(e) == ~IsArticle(e) /\ ~IsBook(e)

\* What marks a DOI or URL suffix.
DoiMarks ==
  {Str(<<"D", "O", "I">>),
   Str(<<"d", "o", "i", ":">>),
   Str(<<"d", "o", "i", ".", "o", "r", "g">>),
   Str(<<"h", "t", "t", "p">>)}

HasDoiSuffix(text) == \E mark \in DoiMarks : FindSub(text, mark, 1) > 0

Contains(text, part) == part # <<>> /\ FindSub(text, part, 1) > 0

\* The entry with the fields the generic branch has no use for taken away.
BareKeys == {"author", "title", "year", "ENTRYTYPE"}

Bare(e) == [k \in DOMAIN e \cap BareKeys |-> e[k]]

\* C14: an article with an empty doi has no DOI or URL suffix in either
\* output; the output for a book never holds the doi; the output of the
\* generic branch is the output for the entry reduced to author, title, year
\* and kind, whatever journal, volume, number, pages, doi, publisher and
\* address are.
C14_DoiOnlyInArticles ==
  Called
    => /\ (plain # IndexError /\ IsArticle(entry) /\ Get(entry, "doi", <<>>) = <<>>)
            => ~HasDoiSuffix(plain) /\ ~HasDoiSuffix(rtf)
       /\ (plain # IndexError /\ IsBook(entry))
            => /\ ~Contains(plain, Get(entry, "doi", <<>>))
               /\ ~Contains(rtf, escape(Get(entry, "doi", <<>>)))
       /\ IsOther(entry) => result = Rendered(call, Bare(entry))

C14_Witness ==
  /\ Called /\ IsOther(entry) /\ call.style = "AoA"
  /\ Get(entry, "doi", <<>>) # <<>> /\ Get(entry, "journal", <<>>) # <<>>

----------------------------------------------------------------------------
\* Further statements on the rendering of one entry (Spec): omit_title.

\* The characters a template puts around a title: space, quotes, comma,
\* period, colon, semicolon; in the marked-up output also what a wrap
\* command is written with.
TitlePunctuation == {32, 34, 39, 44, 46, 58, 59}

WrapCharacters == {123, 125, 92, 105, 98}

OnlyOf(text, chars) == \A k \in 1..Len(text) : text[k] \in chars

\* seg is a title segment: nothing at all, or the title with only such
\* characters before and behind it.
TitleSegmentAt(seg, title, chars, p) ==
  /\ SubSeq(seg, p, p + Len(title) - 1) = title
  /\ OnlyOf(SubSeq(seg, 1, p - 1), chars)
  /\ OnlyOf(SubSeq(seg, p + Len(title), Len(seg)), chars)

TitleSegment(seg, title, chars) ==
  \/ seg = <<>>
  \/ \E p \in 1..(Len(seg) - Len(title) + 1) : TitleSegmentAt(seg, title, chars, p)

\* short is full with one title segment of d characters cut out.
CutOut(full, short, title, chars, d) ==
  /\ d >= 0
  /\ \E i \in 0..Len(short) :
       /\ SubSeq(full, 1, i) = SubSeq(short, 1, i)
       /\ SubSeq(full, i + d + 1, Len(full)) = SubSeq(short, i + 1, Len(short))
       /\ TitleSegment(SubSeq(full, i + 1, i + d), title, chars)

TitleCutOut(full, short, title, chars) ==
  /\ CutOut(full, short, title, chars, Len(full) - Len(short))
  /\ ~Contains(short, title)

\* The title as the templates print it.
PrintedTitle(e) == clean_latex(Get(e, "title", <<>>))

OmittedFrom(full, short, title) ==
  /\ TitleCutOut(full[1], short[1], title, TitlePunctuation)
  /\ TitleCutOut(full[2], short[2], escape(title), TitlePunctuation \cup WrapCharacters)

WithTitle(c) == [c EXCEPT !.omit_title = FALSE]

KindInCapitals(e) == "ENTRYTYPE" \in DOMAIN e /\ e["ENTRYTYPE"] # lower(e["ENTRYTYPE"])

\* C16: an entry without ENTRYTYPE is rendered as an article; the kind is
\* compared in lower case ("ARTICLE" as "article", "Book" as "book"); every
\* other kind ("misc", "inbook") is rendered by the generic branch, as the
\* bare author/title/year entry of kind "misc" is; no kind causes an error.
C16_KindRouting ==
  Called
    => /\ call.max_n = None => plain # IndexError
       /\ "ENTRYTYPE" \notin DOMAIN entry
            => result = Rendered(call, With(entry, "ENTRYTYPE",
                                            Str(<<"a", "r", "t", "i", "c", "l", "e">>)))
       /\ KindInCapitals(entry)
            => result = Rendered(call, With(entry, "ENTRYTYPE", lower(entry["ENTRYTYPE"])))
       /\ IsOther(entry)
            => result = Rendered(call, With(Bare(entry), "ENTRYTYPE",
                                            Str(<<"m", "i", "s", "c">>)))

C16_Witness ==
  /\ Called /\ call.style = "Vancouver"
  /\ entry = With(SampleEntry, "ENTRYTYPE", Str(<<"A", "R", "T", "I", "C", "L", "E">>))

\* The entry is a book with a publisher, which the generic branch has no
\* use for.
PublishedBook(e) == IsBook(e) /\ clean_latex(Get(e, "publisher", <<>>)) # <<>>

AsOther(e) == With(e, "ENTRYTYPE", Str(<<"m", "i", "s", "c">>))

\* C17: every style has a branch of its own for books: a book is not
\* rendered as the same entry of an unrecognized kind is.
C17_BookBranch ==
  (Called /\ plain # IndexError /\ PublishedBook(entry))
    => result # Rendered(call, AsOther(entry))

\* The same for the eight styles other than Vancouver and AoA.
BookBranchOfEight ==
  (Called /\ plain # IndexError /\ PublishedBook(entry)
     /\ call.style \notin {"Vancouver", "AoA"})
    => result # Rendered(call, AsOther(entry))

\* An in-text style was called on the entry.
Cited == call # NoCall /\ call.style \in InTextStyles

\* The author part the tiers give for a parsed author list of one or more.
TierOf(a) ==
  IF Len(a) = 1 THEN a[1].family
  ELSE IF Len(a) = 2 THEN a[1].family \o Str(<<" ", "&", " ">>) \o a[2].family
  ELSE a[1].family \o Str(<<" ", "e", "t", " ", "a", "l", ".">>)

\* The plain text of a citation in the style, for the author list a, the
\* year y and the index n in decimal digits.
CitationText(style, a, y, n) ==
  IF style = "(Author, Year)"
  THEN Str(<<"(">>) \o TierOf(a) \o Str(<<",", " ">>) \o y \o Str(<<")">>)
  ELSE IF style = "Author (Year)"
  THEN TierOf(a) \o Str(<<" ", "(">>) \o y \o Str(<<")">>)
  ELSE IF style = "[n]" THEN Str(<<"[">>) \o n \o Str(<<"]">>)
  ELSE n

\* The entry with nothing but its authors and its year.
AuthorsAndYear(e) == [k \in DOMAIN e \cap {"author", "year"} |-> e[k]]

CitedAs(style, a) ==
  (a # <<>> \/ style \in {"[n]", "Superscript"})
    => plain = CitationText(style, a, Get(entry, "year", <<>>), Decimal(call.idx))

\* C18: an in-text citation is the tiered family names and the year in the
\* parenthetical and the narrative style, "[n]" in the numeric style, and
\* "n" with exactly RTFBuilder.superscript("n") as markup in the superscript
\* style; it is the citation of the entry reduced to its authors and year.
C18_InTextTiers ==
  Cited =>
    /\ CitedAs(call.style, parse_authors(Get(entry, "author", <<>>)))
    /\ call.style = "Superscript" => rtf = superscript(Decimal(call.idx))
    /\ result = intext_style(call.style, AuthorsAndYear(entry), call.idx)

C18_Witness ==
  /\ Cited
  /\ call.style = "(Author, Year)"
  /\ entry = TeamEntry
  /\ plain = Str(<<"(", "C", "u", "r", "i", "e", " ", "e", "t", " ", "a", "l", ".", ",", " ", "1", "9", "2", "1", ")">>)

----------------------------------------------------------------------------
\* Fetching a batch of identifiers: the caller awaits
\* DOIProcessor.fetch_doi_entries(doi_input); the coroutine stands still at
\* asyncio.sleep, at pyfetch and at response.json() until the event loop, the
\* network and the Crossref server let it go on.

\* The most lines a doi_input has.
MaxDois == 3

\* The lines a caller types: a bare identifier, one given as an address, the
\* address of the resolver with no identifier behind it, and a blank line.
DoiLines ==
  {Str(<<"1", "0", "/", "a">>),
   Str(<<"h", "t", "t", "p", "s", ":", "/", "/", "d", "o", "i", ".", "o", "r", "g", "/", "1", "0", "/", "b">>),
   Str(<<" ", "d", "o", "i", ".", "o", "r", "g", "/">>),
   Str(<<" ">>)}

DoiInputs ==
  {join(<<10>>, lines) : lines \in UNION {[1..n -> DoiLines] : n \in 0..MaxDois}}

\* The values of response.status.
Statuses == {200, 404}

\* The types of work the server reports.
CrossrefTypes ==
  {Str(<<"j", "o", "u", "r", "n", "a", "l", "-", "a", "r", "t", "i", "c", "l", "e">>),
   Str(<<"b", "o", "o", "k">>),
   Str(<<"p", "r", "o", "c", "e", "e", "d", "i", "n", "g", "s", "-", "a", "r", "t", "i", "c", "l", "e">>)}

\* data.get('message', {}) of a response for an identifier: the work, with its
\* DOI and with or without its type.
Items(doi) ==
  {[k \in {"DOI"} |-> doi]}
    \cup {[k \in {"DOI", "type"} |-> IF k = "DOI" THEN doi ELSE t] : t \in CrossrefTypes}

\* str(e) of what pyfetch, response.json() or the conversion raised.
Failures == {Str(<<"t", "i", "m", "e", "o", "u", "t">>)}

\* What became of an identifier: no request was made for it, the request
\* raised, the server answered with a status, or the answer could not be
\* decoded.
Skipped == [status |-> 0, end |-> "skipped"]
Raised == [status |-> 0, end |-> "request_error"]
Answered(status) == [status |-> status, end |-> "answered"]
Undecoded(outcome) == [outcome EXCEPT !.end = "decode_error"]

InitFetch ==
  /\ doi_input \in DoiInputs
  /\ dois = <<>>
  /\ position = 0
  /\ at = "idle"
  /\ clean_doi = <<>>
  /\ entries = <<>>
  /\ printed = <<>>
  /\ awaited = <<>>
  /\ in_flight = {}
  /\ outcomes = <<>>
  /\ CiteIdle
  /\ ListIdle
  /\ TextIdle
  /\ ParseIdle

\* entries = []; dois = [...]
Start ==
  /\ at = "idle"
  /\ entries' = <<>>
  /\ dois' = doi_lines(doi_input)
  /\ position' = 0
  /\ at' = "loop"
  /\ UNCHANGED <<doi_input, clean_doi, printed, awaited, in_flight, outcomes,
                 citeVars, listVars, textVars, parseVars>>

\* for i, doi in enumerate(dois): if i > 0: await asyncio.sleep(1)
NextDoi ==
  /\ at = "loop"
  /\ position < Len(dois)
  /\ IF delay_due(position)
     THEN /\ awaited' = Append(awaited, [fn |-> "sleep", of |-> position, arg |-> Decimal(1)])
          /\ at' = "sleeping"
     ELSE /\ awaited' = awaited
          /\ at' = "awake"
  /\ UNCHANGED <<doi_input, dois, position, clean_doi, entries, printed, in_flight,
                 outcomes, citeVars, listVars, textVars, parseVars>>

\* asyncio.sleep(1) is over.
Wake ==
  /\ at = "sleeping"
  /\ at' = "awake"
  /\ UNCHANGED <<doi_input, dois, position, clean_doi, entries, printed, awaited,
                 in_flight, outcomes, citeVars, listVars, textVars, parseVars>>

\* The identifier is cleaned; "if not clean_doi: continue", or else
\* "await pyfetch(url)".
Request ==
  /\ at = "awake"
  /\ clean_doi' = clean(dois[position + 1])
  /\ IF clean_doi' = <<>>
     THEN /\ position' = position + 1
          /\ outcomes' = Append(outcomes, Skipped)
          /\ at' = "loop"
          /\ UNCHANGED <<awaited, in_flight>>
     ELSE /\ awaited' = Append(awaited, [fn |-> "pyfetch", of |-> position,
                                         arg |-> works_url(clean_doi')])
          /\ in_flight' = in_flight \cup {position}
          /\ at' = "requesting"
          /\ UNCHANGED <<position, outcomes>>
  /\ UNCHANGED <<doi_input, dois, entries, printed, citeVars, listVars, textVars, parseVars>>

\* pyfetch raises; except Exception as e: print(...)
RequestFails ==
  \E e \in Failures :
    /\ at = "requesting"
    /\ in_flight' = in_flight \ {position}
    /\ printed' = Append(printed, error_fetching(clean_doi, e))
    /\ outcomes' = Append(outcomes, Raised)
    /\ position' = position + 1
    /\ at' = "loop"
    /\ UNCHANGED <<doi_input, dois, clean_doi, entries, awaited, citeVars, listVars,
                   textVars, parseVars>>

\* pyfetch returns the response: "if response.status == 200:
\* data = await response.json()", or else the status is printed.
Respond ==
  \E status \in Statuses :
    /\ at = "requesting"
    /\ in_flight' = in_flight \ {position}
    /\ outcomes' = Append(outcomes, Answered(status))
    /\ IF is_ok(status)
       THEN /\ at' = "decoding"
            /\ UNCHANGED <<position, printed>>
       ELSE /\ printed' = Append(printed, failed_to_fetch(clean_doi, status))
            /\ position' = position + 1
            /\ at' = "loop"
    /\ UNCHANGED <<doi_input, dois, clean_doi, entries, awaited, citeVars, listVars,
                   textVars, parseVars>>

\* response.json() returns; the item is converted and the entry appended.
Decoded ==
  \E item \in Items(clean_doi) :
    /\ at = "decoding"
    /\ entries' = Append(entries, parse_crossref_json(item))
    /\ position' = position + 1
    /\ at' = "loop"
    /\ UNCHANGED <<doi_input, dois, clean_doi, printed, awaited, in_flight, outcomes,
                   citeVars, listVars, textVars, parseVars>>

\* response.json() or the conversion raises; except Exception as e: print(...)
DecodeFails ==
  \E e \in Failures :
    /\ at = "decoding"
    /\ printed' = Append(printed, error_fetching(clean_doi, e))
    /\ outcomes' = [outcomes EXCEPT ![Len(outcomes)] = Undecoded(@)]
    /\ position' = position + 1
    /\ at' = "loop"
    /\ UNCHANGED <<doi_input, dois, clean_doi, entries, awaited, in_flight, citeVars,
                   listVars, textVars, parseVars>>

\* return entries
Return ==
  /\ at = "loop"
  /\ position = Len(dois)
  /\ at' = "done"
  /\ UNCHANGED <<doi_input, dois, position, clean_doi, entries, printed, awaited,
                 in_flight, outcomes, citeVars, listVars, textVars, parseVars>>

NextFetch ==
  \/ Start
  \/ NextDoi
  \/ Wake
  \/ Request
  \/ RequestFails
  \/ Respond
  \/ Decoded
  \/ DecodeFails
  \/ Return

\* The event loop resumes the coroutine, and every sleep and every request
\* comes to an end.
SpecFetch == InitFetch /\ [][NextFetch]_vars /\ WF_vars(NextFetch)

\* fetch_doi_entries has returned.
Done == at = "done"

\* The identifiers the server answered with 200, the answer decoded.
Answered200 ==
  {j \in 1..Len(outcomes) : outcomes[j].end = "answered" /\ outcomes[j].status = 200}

\* The list is one entry for each of the identifiers of S, in their order.
OneEntryEach(S) ==
  /\ Len(entries) = Cardinality(S)
  /\ \A n \in 1..Len(entries) : entries[n]["doi"] = clean(dois[Nth(S, n)])

RanToTheLast == position = Len(dois) /\ Len(outcomes) = Len(dois)

\* C19: whatever becomes of each identifier (an answer with status 200, with
\* another status, an exception of the request or of the decoding),
\* fetch_doi_entries passes every identifier and returns, and the list it
\* returns holds exactly one entry for each identifier answered with 200,
\* in the order of the input.
C19_PartialResults == <>Done /\ [](Done => RanToTheLast /\ OneEntryEach(Answered200))

\* A batch whose second identifier fails between two that succeed.
C19_Witness ==
  /\ Done
  /\ Len(dois) = 3
  /\ Answered200 = {1, 3}
  /\ outcomes[2].end = "request_error"
  /\ Len(entries) = 2

Requests == SelectSeq(awaited, LAMBDA c : c.fn = "pyfetch")

\* The calls awaited before the n-th request and behind the one before it.
Before(n) ==
  LET at_n == CHOOSE k \in 1..Len(awaited) :
                awaited[k].fn = "pyfetch"
                /\ Cardinality({j \in 1..k : awaited[j].fn = "pyfetch"}) = n
      from == Last({0} \cup {j \in 1..(at_n - 1) : awaited[j].fn = "pyfetch"})
  IN SubSeq(awaited, from + 1, at_n - 1)

\* One request at most for each identifier, in the order of the input, each
\* for the cleaned identifier, and none while another is without response
\* or an earlier identifier is not done with.
OneByOne ==
  /\ \A n \in 1..Len(Requests) :
       /\ Requests[n].arg = works_url(clean(dois[Requests[n].of + 1]))
       /\ n > 1 => Requests[n - 1].of < Requests[n].of
  /\ Cardinality(in_flight) <= 1
  /\ in_flight # {} => in_flight = {position} /\ Len(outcomes) = position

\* C20: fetch_doi_entries makes at most one request for each identifier, in
\* the order of the input and never two at a time, and it sleeps once
\* between every two consecutive requests and not before the first.
C20_RateLimited ==
  /\ OneByOne
  /\ \A n \in 1..Len(Requests) : Len(Before(n)) = IF n = 1 THEN 0 ELSE 1

\* The same where every identifier of the input is asked for: there the
\* sleeps and the requests alternate.
EveryDoiRequested == \A j \in 1..Len(dois) : clean(dois[j]) # <<>>

RateLimitedWhereAllRequested == (at # "idle" /\ EveryDoiRequested) => C20_RateLimited

----------------------------------------------------------------------------
\* Importing a file: the caller hands its text to parse_bibtex or to
\* parse_ris, which hand it to bibtexparser or rispy.  A text stands here as
\* what the library does with it: the records it finds in it, or the
\* exception it raises.

\* The most records a text holds.
MaxRecords == 2

\* The article of test_rispy.py, a book with a publisher, a chapter with the
\* title and the year under their other names, and a record with no field.
RisRecords ==
  {[k \in {"type_of_reference", "authors", "title", "journal_name", "volume", "number", "start_page", "end_page", "year", "doi"} |->
     CASE k = "type_of_reference" -> Str(<<"J", "O", "U", "R">>)
       [] k = "authors" -> <<Str(<<"D", "m", "i", "t", "r", "i", "e", "n", "k", "o", ",", " ", "G", "a", "r", "y", " ", "I">>), Str(<<"N", "i", "e", "l", "s", "e", "n", ",", " ", "K", "e", "n", "t", " ", "E">>)>>
       [] k = "title" -> Str(<<"N", "-", "c", "y", "a", "n", "o", "i", "n", "d", "o", "l", "e", "s", ".", ".", ".">>)
       [] k = "journal_name" -> Str(<<"T", "e", "t", "r", "a", "h", "e", "d", "r", "o", "n", " ", "L", "e", "t", "t", "e", "r", "s">>)
       [] k = "volume" -> Str(<<"3", "1">>)
       [] k = "number" -> Str(<<"2", "6">>)
       [] k = "start_page" -> Str(<<"3", "6", "8", "1">>)
       [] k = "end_page" -> Str(<<"3", "6", "8", "4">>)
       [] k = "year" -> Str(<<"1", "9", "9", "0">>)
       [] k = "doi" -> Str(<<"1", "0", ".", "1", "0", "1", "6", "/", "s", "0", "0", "4", "0", "-", "4", "0", "3", "9", "(", "0", "0", ")", "9", "7", "4", "4", "3", "-", "4">>)],
   [k \in {"type_of_reference", "authors", "title", "publication_year", "publisher", "place_published"} |->
     CASE k = "type_of_reference" -> Str(<<"B", "O", "O", "K">>)
       [] k = "authors" -> <<Str(<<"S", "m", "i", "t", "h", ",", " ", "J", "a", "n", "e">>)>>
       [] k = "title" -> Str(<<"O", "r", "g", "a", "n", "i", "c", " ", "S", "y", "n", "t", "h", "e", "s", "i", "s">>)
       [] k = "publication_year" -> Str(<<"2", "0", "0", "4">>)
       [] k = "publisher" -> Str(<<"W", "i", "l", "e", "y">>)
       [] k = "place_published" -> Str(<<"N", "e", "w", " ", "Y", "o", "r", "k">>)],
   [k \in {"type_of_reference", "primary_title", "secondary_title", "year", "start_page"} |->
     CASE k = "type_of_reference" -> Str(<<"C", "H", "A", "P">>)
       [] k = "primary_title" -> Str(<<"Y", "l", "i", "d", "e", "s">>)
       [] k = "secondary_title" -> Str(<<"R", "e", "a", "g", "e", "n", "t", "s">>)
       [] k = "year" -> Str(<<"1", "9", "9", "9">>)
       [] k = "start_page" -> Str(<<"1", "2">>)],
   [k \in {} |-> <<>>]}

BibRecords == {SampleEntry, BookEntry, TeamEntry, EmptyEntry}

\* str(e) of what the library raises.
ParseFailures == {Str(<<"I", "n", "v", "a", "l", "i", "d", " ", "s", "t", "a", "r", "t", " ", "t", "a", "g", " ", "i", "n", " ", "l", "i", "n", "e", " ", "0">>)}

Lists(S) == UNION {[1..n -> S] : n \in 0..MaxRecords}

Sources ==
  [format : {"bibtex"}, raises : {FALSE}, e : {<<>>}, entries : Lists(BibRecords)]
    \cup [format : {"bibtex"}, raises : {TRUE}, e : ParseFailures, entries : Lists(BibRecords)]
    \cup [format : {"ris"}, raises : {FALSE}, e : {<<>>}, entries : Lists(RisRecords)]
    \cup [format : {"ris"}, raises : {TRUE}, e : ParseFailures, entries : Lists(RisRecords)]

InitParse ==
  /\ source \in Sources
  /\ parse_result = NotParsed
  /\ CiteIdle
  /\ ListIdle
  /\ TextIdle
  /\ FetchIdle

\* BibTeXProcessor.parse_bibtex(bibtex_string)
ParseBibtex ==
  /\ source.format = "bibtex"
  /\ parse_result = NotParsed
  /\ parse_result' = parse_bibtex(source)
  /\ UNCHANGED <<source, citeVars, listVars, textVars, fetchVars>>

\* RISProcessor.parse_ris(ris_str)
ParseRis ==
  /\ source.format = "ris"
  /\ parse_result = NotParsed
  /\ parse_result' = parse_ris(source)
  /\ UNCHANGED <<source, citeVars, listVars, textVars, fetchVars>>

NextParse == ParseBibtex \/ ParseRis

SpecParse == InitParse /\ [][NextParse]_vars

\* The parse was called and the library failed on the text.
ParseFailed == parse_result # NotParsed /\ source.raises

\* The caller gets one error that tells what the library said, and no list.
Surfaced ==
  /\ parse_result.status = "raised"
  /\ Contains(parse_result.error, source.e)

\* C21: a parse of BibTeX or RIS text that fails gives the caller a single
\* descriptive error, never a list of entries, be it empty or shortened.
C21_FailureSurfaced == ParseFailed => Surfaced

\* The same for parse_bibtex alone.
BibtexFailureSurfaced == (ParseFailed /\ source.format = "bibtex") => Surfaced

\* Every character of the text is in the range 0-127.
AsciiOnly(text) == \A i \in 1..Len(text) : text[i] <= 127

\* What escape is to make of one character.
Escaped(c) ==
  IF c > 127 THEN Str(<<"\\", "u">>) \o Decimal(c) \o Str(<<"?">>)
  ELSE IF c \in {92, 123, 125} THEN <<92, c>>
  ELSE <<c>>

\* escape and the three wraps do to the text what the rule says.
EscapedByRule(text) ==
  /\ escape(text) = Concat([i \in 1..Len(text) |-> Escaped(text[i])])
  /\ AsciiOnly(italic(text)) /\ AsciiOnly(bold(text)) /\ AsciiOnly(superscript(text))

\* C22: escape turns every character above 127 into \u<code point>? and
\* puts a backslash before every backslash and brace, and changes nothing
\* else; the marked-up output of every reference and in-text style holds
\* characters of the range 0-127 only.
C22_AsciiMarkup ==
  Called =>
    /\ \A k \in DOMAIN entry : EscapedByRule(entry[k])
    /\ plain # IndexError => AsciiOnly(rtf)

\* An entry with a character above 127 in a field, rendered with a dash
\* above 127 in its pages.
C22_Witness ==
  /\ Called
  /\ call.style = "ACS"
  /\ entry = With(SampleEntry, "address", Str(<<"Z">>) \o <<252>> \o Str(<<"r", "i", "c", "h">>))
  /\ ~AsciiOnly(plain)
  /\ Contains(rtf, Str(<<"\\", "u", "8", "2", "1", "1", "?">>))

\* The text holds none of the control characters of the builder.
ControlFree(x) == \A i \in 1..Len(x) : x[i] \notin {92, 123, 125}

\* The markup stripped as rtf_to_html followed by the removal of the tags
\* strips it.
Displayed(m) == RemoveTags(rtf_to_html(m))

\* C23: for a text x without backslash and braces, also one with characters
\* above 127, italic(escape(x)), bold(escape(x)) and superscript(escape(x))
\* stripped of their markup are x again.
C23_BuilderLaw ==
  Called =>
    \A k \in DOMAIN entry :
      ControlFree(entry[k]) =>
        /\ Displayed(italic(escape(entry[k]))) = entry[k]
        /\ Displayed(bold(escape(entry[k]))) = entry[k]
        /\ Displayed(superscript(escape(entry[k]))) = entry[k]

\* What does hold: the wrap of the text itself, with the wrap command
\* removed and the escapes undone, is the text.
WrapOfTextStrips ==
  Called =>
    \A k \in DOMAIN entry :
      ControlFree(entry[k]) =>
        /\ StripMarkup(italic(entry[k])) = entry[k]
        /\ StripMarkup(bold(entry[k])) = entry[k]

\* The lengths of the runs of hyphens of a text.
HyphenRun(text, k) == FirstOr({j \in k..Len(text) : text[j] # 45}, Len(text) + 1) - k

HyphenRuns(text) ==
  {HyphenRun(text, k) : k \in {j \in 1..Len(text) : text[j] = 45 /\ (j = 1 \/ text[j - 1] # 45)}}

\* C24: clean_latex replaces every double and every triple hyphen of its
\* input by a single hyphen: of a text whose runs of hyphens are one, two or
\* three long, no two hyphens in a row are left.
C24_HyphensCollapsed ==
  (op = "clean_latex" /\ HyphenRuns(raw) \subseteq {1, 2, 3})
    => FindSub(value, Str(<<"-", "-">>), 1) = 0

\* The same for the double hyphen alone.
DoubleHyphenCollapsed ==
  (op = "clean_latex" /\ HyphenRuns(raw) \subseteq {1, 2})
    => FindSub(value, Str(<<"-", "-">>), 1) = 0

\* How often the part stands in the text.
Count(text, part) == Cardinality({k \in 1..Len(text) : StartsAt(text, k, part)})

\* How often the j-th author of the list is named in the output; the family
\* names of a list differ from each other, and ISO 690 prints them in capitals.
TimesNamed(j) == Count(lower(names), lower(authors[j].family))

WithinCap ==
  \A j \in 1..Len(authors) : TimesNamed(j) <= IF j <= listing.max_n THEN 1 ELSE 0

\* C25: for a cap of one or more, every author-list style names at most
\* max_n authors, each of them one of the first max_n of the list and none
\* of them twice; so does APA in its truncated form, whatever the cap.
C25_CapRespected == (Listed /\ listing.max_n >= 1) => WithinCap

\* The same for every call but APA's with a list that a cap below 7 cuts.
CapRespectedButApaBelowSeven ==
  (Listed /\ listing.max_n >= 1
     /\ ~(listing.style = "apa" /\ listing.max_n < 7 /\ Len(authors) > listing.max_n))
    => WithinCap

\* rtf_to_html has run on the marked-up output of the call.
Transcoded == call # NoCall /\ html # NotRun

\* C26: rtf_to_html gives for the marked-up fragment of any reference or
\* in-text style what it gives for the document built of the fragment; the
\* fragment "{\super n}" of the Superscript style keeps its closing brace
\* and becomes "<sup>n</sup>".
C26_WrapInsensitive == Transcoded => html = rtf_to_html(build_document(rtf))

\* The same for the fragments that do not end with a closing brace.
WrapInsensitiveWithoutFinalBrace ==
  (Transcoded /\ rtf # <<>> /\ rtf[Len(rtf)] # 125) => html = rtf_to_html(build_document(rtf))

\* C27: whatever cap of zero or more the caller passes, and whatever the
\* authors of the entry, every reference style returns its two strings and
\* raises nothing.
C27_TotalInCap == (Called /\ call.max_n # None) => plain # IndexError

\* The same for every style but APA with a cap of zero.
TotalButApaWithZero ==
  (Called /\ ~(call.style = "APA (7th)" /\ call.max_n = <<0>>)) => plain # IndexError

====
